---- MODULE Spec2Model ----
(***************************************************************************)
(* Editor / Document synchronisation of src/src/editor/Editor.js.          *)
(*                                                                         *)
(* All code runs on one thread; handlers call each other synchronously.    *)
(* The call nesting (surface change -> _handleEditorChange -> replay onto  *)
(* the master -> Document change -> _handleDocumentChange of every other   *)
(* view -> replay -> echo ...) is kept as an explicit call stack: the top  *)
(* frame is the code that runs next, and an operation of the user or of    *)
(* the host (attach, destroy, edit, refresh) starts only on an empty       *)
(* stack.                                                                  *)
(***************************************************************************)
EXTENDS Integers, Sequences, FiniteSets, TLC

\* ---------------------------------------------------------------- bounds
MaxViews == 3
MaxLines == 3
MaxEdits == 2
MaxRanged == 1
MaxRecords == 2
MaxWidgets == 2

Views == 1..MaxViews
NL == "\n"

\* ------------------------------------------------- null / undefined values
\* `null` for Editor.prototype._visibleRange
NoRange == [startLine |-> -1, endLine |-> -1]
\* an undefined `from` / `to` of a change record
Undefined == [line |-> -1, ch |-> -1]
\* `null` for Document._masterEditor
NoEditor == 0
\* `null` for Document._text while a master editor holds the text
NoText == <<"null">>

\* ------------------------------------------------------------ text helpers
Min(a, b) == IF a < b THEN a ELSE b
Max(a, b) == IF a > b THEN a ELSE b

\* change.text.join('\n')
RECURSIVE JoinLines(_)
JoinLines(lines) ==
    IF Len(lines) = 0 THEN <<>>
    ELSE IF Len(lines) = 1 THEN lines[1]
    ELSE lines[1] \o <<NL>> \o JoinLines(Tail(lines))

\* the surface splits the string it is given at every newline
RECURSIVE SplitLines(_)
SplitLines(s) ==
    IF \A i \in 1..Len(s) : s[i] # NL THEN <<s>>
    ELSE LET i == CHOOSE k \in 1..Len(s) :
                      s[k] = NL /\ \A j \in 1..(k - 1) : s[j] # NL
         IN <<SubSeq(s, 1, i - 1)>> \o SplitLines(SubSeq(s, i + 1, Len(s)))

\* the surface clips a position into its text
ClipPos(text, pos) ==
    IF pos.line < 0 THEN [line |-> 0, ch |-> 0]
    ELSE IF pos.line >= Len(text)
         THEN [line |-> Len(text) - 1, ch |-> Len(text[Len(text)])]
    ELSE [line |-> pos.line,
          ch |-> Max(0, Min(pos.ch, Len(text[pos.line + 1])))]

PosLeq(p, q) == p.line < q.line \/ (p.line = q.line /\ p.ch <= q.ch)

\* cm.replaceRange(newText, from, to) on a surface holding `text`; an end that
\* lies before the start is taken as the start
ReplaceRange(text, newText, from, to) ==
    LET f == ClipPos(text, from)
        t0 == ClipPos(text, to)
        t == IF PosLeq(f, t0) THEN t0 ELSE f
        code == SplitLines(newText)
        first == SubSeq(text[f.line + 1], 1, f.ch)
        last == SubSeq(text[t.line + 1], t.ch + 1, Len(text[t.line + 1]))
        mid == IF Len(code) = 1 THEN <<first \o code[1] \o last>>
               ELSE <<first \o code[1]>> \o SubSeq(code, 2, Len(code) - 1)
                    \o <<code[Len(code)] \o last>>
    IN SubSeq(text, 1, f.line) \o mid \o SubSeq(text, t.line + 2, Len(text))

\* cm.setValue(newText)
SetValue(newText) == SplitLines(newText)

\* the change record the surface reports for a setValue: the whole old text
\* replaced
SetValueRecord(old, newText) ==
    [from |-> [line |-> 0, ch |-> 0],
     to |-> [line |-> Len(old) - 1, ch |-> Len(old[Len(old)])],
     text |-> SplitLines(newText)]

\* cm.hideLine(n) on a surface of lineCount lines: the line number is clipped
HideLine(hid, n, lineCount) == hid \cup {Max(0, Min(n, lineCount - 1))}

\* the hidden lines of a surface after a replacement of the lines f.line to
\* t.line by n lines: the first line of the replaced range stays the same
\* line, and so does its last line when the range and the new text both span
\* several lines; the other lines of the new text are new and not hidden;
\* the lines below move by the net number of lines added
ShiftHiddenAt(hid, f, t, n) ==
    {i \in hid : i <= f.line}
       \cup (IF t.line > f.line /\ n > 1 /\ t.line \in hid
             THEN {f.line + n - 1} ELSE {})
       \cup {i + n - (t.line - f.line + 1) : i \in {j \in hid : j > t.line}}

\* the end of the range the surface replaces: a range given backwards is
\* empty
ClipEnd(f, t) == IF PosLeq(f, t) THEN t ELSE f

\* the hidden lines of a surface after cm.replaceRange(newText, from, to)
ShiftHidden(hid, text, newText, from, to) ==
    ShiftHiddenAt(hid, ClipPos(text, from),
                  ClipEnd(ClipPos(text, from), ClipPos(text, to)),
                  Len(SplitLines(newText)))

\* ------------------------------------------------------------ key handling
\* a line of the surface is a sequence of characters
Spaces(n) == [i \in 1..n |-> " "]
Tabs(n) == [i \in 1..n |-> "\t"]

\* \s of the regular expressions of Editor.js:62, 118, 135
IsSpace(c) == c \in {" ", "\t"}

\* str.search(/\S/): the index of the first non-space character, -1 if none
SearchNonSpace(str) ==
    IF \A i \in 1..Len(str) : IsSpace(str[i]) THEN -1
    ELSE (CHOOSE i \in 1..Len(str) :
              ~IsSpace(str[i]) /\ \A j \in 1..(i - 1) : IsSpace(str[j])) - 1

\* str.search(/\s*$/g): the index where the spaces that end str begin
SearchTrailingSpace(str) ==
    CHOOSE i \in 0..Len(str) :
        /\ \A j \in (i + 1)..Len(str) : IsSpace(str[j])
        /\ i = 0 \/ ~IsSpace(str[i])

\* str.substr(start, length)
Substr(str, start, length) ==
    SubSeq(str, start + 1, Min(Len(str), start + length))

\* (variant: a jump that ends at the line end does not fit)
Mut_ForwardFitsStrict(ch, jump, length) == ch + jump < length
\* the test of Editor.js:114, negated: the jump stays within the line
ForwardFits(ch, jump, length) == ~(ch + jump > length)

\* (variant: the backward jump is never shortened)
Mut_BackwardNoOffset(str) == 0
\* Editor.js:135: where the backward jump stops
BackwardOffset(str) == SearchTrailingSpace(str)

\* (variant: a full unit whatever the column)
Mut_NumSpacesFull(tabSize, ch) == tabSize
\* Editor.js:85-86: the number of spaces up to the next tab stop
NumSpaces(tabSize, ch) == tabSize - (ch % tabSize)

\* _handleSoftTabNavigation (Editor.js:103-149): the signed number of
\* characters passed to moveH or deleteH, 0 when the key is not handled
SoftTabJump(line, ch, tabSize, withTabs, direction) ==
    IF withTabs THEN 0
    ELSE IF direction = 1
    THEN IF ~ForwardFits(ch, tabSize - (ch % tabSize), Len(line)) THEN 0
         ELSE IF SearchNonSpace(Substr(line, ch, tabSize - (ch % tabSize)))
                     = -1
         THEN tabSize - (ch % tabSize)
         ELSE 0
    ELSE IF ch = 0 THEN 0
    ELSE IF ch % tabSize = 0
    THEN -(tabSize - BackwardOffset(Substr(line, ch - tabSize, tabSize)))
    ELSE -((ch % tabSize)
           - BackwardOffset(Substr(line, ch - (ch % tabSize), ch % tabSize)))

\* the surface's moveH(n, "char") with an empty selection: the cursor moves
\* by n within the line; at the line's end it leaves the line
MoveH(k, n) ==
    IF (n < 0 /\ k.to = 0) \/ (n > 0 /\ k.to = Len(k.line))
    THEN [k EXCEPT !.offLine = IF n < 0 THEN -1 ELSE 1]
    ELSE [k EXCEPT !.from = Max(0, Min(Len(k.line), k.to + n)),
                   !.to = Max(0, Min(Len(k.line), k.to + n))]

\* the surface's deleteH(n, "char") with an empty selection: the characters
\* between the cursor and the position n away are deleted; at the line's end
\* the line is joined with its neighbour
DeleteH(k, n) ==
    IF (n < 0 /\ k.to = 0) \/ (n > 0 /\ k.to = Len(k.line))
    THEN [k EXCEPT !.offLine = IF n < 0 THEN -1 ELSE 1]
    ELSE IF n < 0
    THEN [k EXCEPT !.line = SubSeq(k.line, 1, Max(0, k.to + n))
                            \o SubSeq(k.line, k.to + 1, Len(k.line)),
                   !.from = Max(0, k.to + n),
                   !.to = Max(0, k.to + n)]
    ELSE [k EXCEPT !.line = SubSeq(k.line, 1, k.to)
                            \o SubSeq(k.line, Min(Len(k.line), k.to + n) + 1,
                                      Len(k.line))]

\* the number of characters of the white space a line begins with
LeadingSpace(line) ==
    IF SearchNonSpace(line) = -1 THEN Len(line) ELSE SearchNonSpace(line)

\* the surface's column of the position after the first n characters
RECURSIVE CountColumn(_, _, _)
CountColumn(line, n, tabSize) ==
    IF n = 0 THEN 0
    ELSE IF line[n] = "\t"
    THEN CountColumn(line, n - 1, tabSize) + tabSize
         - (CountColumn(line, n - 1, tabSize) % tabSize)
    ELSE CountColumn(line, n - 1, tabSize) + 1

\* the white space the surface writes for an indentation of cols columns
IndentString(cols, tabSize, withTabs) ==
    IF withTabs THEN Tabs(cols \div tabSize) \o Spaces(cols % tabSize)
    ELSE Spaces(cols)

\* the surface indents a line to cols columns: nothing is written when the
\* line is indented so already
IndentLineTo(line, cols, tabSize, withTabs) ==
    IF cols = CountColumn(line, LeadingSpace(line), tabSize) THEN line
    ELSE IndentString(cols, tabSize, withTabs)
         \o SubSeq(line, LeadingSpace(line) + 1, Len(line))

\* where a position of the line is after the surface has rewritten the first
\* ws characters as n characters
AdjustPos(ch, ws, n) == IF ch <= ws THEN n ELSE ch - ws + n

\* the selection after the line was indented
Reindented(k, line) ==
    IF line = k.line THEN k
    ELSE [k EXCEPT !.line = line,
                   !.from = AdjustPos(k.from, LeadingSpace(k.line),
                                      LeadingSpace(line)),
                   !.to = IF k.multi THEN k.to
                          ELSE AdjustPos(k.to, LeadingSpace(k.line),
                                         LeadingSpace(line))]

\* the surface's replaceSelection(ins, "end") for a selection within the line
ReplaceSelection(k, ins) ==
    [k EXCEPT !.line = SubSeq(k.line, 1, k.from) \o ins
                       \o SubSeq(k.line, k.to + 1, Len(k.line)),
              !.from = k.from + Len(ins),
              !.to = k.from + Len(ins)]

\* the indentation unit of Editor.js:82-91 for the column ch
IndentUnitAt(k, ch) ==
    IF k.withTabs THEN <<"\t">> ELSE Spaces(NumSpaces(k.tabSize, ch))

\* the option indentUnit given to the surface (Editor.js:268)
IndentUnit == 4

\* the test of Editor.js:61-65
TabIndentsAuto(k) ==
    ~k.multi /\ (SearchNonSpace(k.line) > k.to \/ k.to = 0)

\* Editor.js:67-74: the line is indented as the mode computes (k.auto)
AfterIndentAuto(k) ==
    Reindented(k, IndentLineTo(k.line, k.auto, k.tabSize, k.withTabs))

\* _handleTabKey (Editor.js:44-93): the line, the selection and the commands
\* given to the surface
HandleTabKey(k) ==
    IF TabIndentsAuto(k)
    THEN IF Len(AfterIndentAuto(k).line) = Len(k.line)
         THEN [ReplaceSelection(AfterIndentAuto(k), IndentUnitAt(k, 0))
                   EXCEPT !.cmds = <<"indentAuto", "insert">>]
         ELSE [AfterIndentAuto(k) EXCEPT !.cmds = <<"indentAuto">>]
    ELSE IF k.multi \/ k.from # k.to
    THEN [Reindented(k, IndentLineTo(k.line,
                         CountColumn(k.line, LeadingSpace(k.line), k.tabSize)
                         + IndentUnit, k.tabSize, k.withTabs))
              EXCEPT !.cmds = <<"indentMore">>]
    ELSE [ReplaceSelection(k, IndentUnitAt(k, k.to))
              EXCEPT !.cmds = <<"insert">>]

\* the handlers of Left, Right, Backspace and Delete (Editor.js:225-244)
HandleNavKey(k, direction, fn, single) ==
    IF SoftTabJump(k.line, k.to, k.tabSize, k.withTabs, direction) # 0
    THEN [(IF fn = "moveH"
           THEN MoveH(k, SoftTabJump(k.line, k.to, k.tabSize, k.withTabs,
                                     direction))
           ELSE DeleteH(k, SoftTabJump(k.line, k.to, k.tabSize, k.withTabs,
                                       direction)))
              EXCEPT !.cmds = <<fn>>,
                     !.n = SoftTabJump(k.line, k.to, k.tabSize, k.withTabs,
                                       direction)]
    ELSE [(IF fn = "moveH" THEN MoveH(k, direction)
           ELSE DeleteH(k, direction))
              EXCEPT !.cmds = <<single>>, !.n = direction]

\* no key was pressed; the key handling is not looked at
NoKeys == [key |-> "off", line |-> <<>>, from |-> 0, to |-> 0,
           multi |-> FALSE, tabSize |-> 1, withTabs |-> FALSE, auto |-> 0,
           cmds |-> <<>>, n |-> 0, offLine |-> 0,
           was |-> [line |-> <<>>, from |-> 0, to |-> 0]]

\* ------------------------------------------------------------ hint insertion
\* the characters of identifiers among those of the texts looked at
IdChars == {"A", "B", "a", "b", "l", "o", "p", "r", "v", "1", "2", "3"}
IsIdChar(c) == c \in IdChars

\* the number of identifier characters immediately left of the cursor
RECURSIVE IdRun(_, _)
IdRun(text, cursor) ==
    IF cursor = 0 \/ ~IsIdChar(text[cursor]) THEN 0
    ELSE IdRun(text, cursor - 1) + 1

\* (variant: the typed fragment is never replaced)
Mut_QueryStartAtCursor(text, cursor) == cursor
\* the start of the identifier or property fragment that ends at the cursor
QueryStart(text, cursor) == cursor - IdRun(text, cursor)

\* insertHint of the hint provider: the range [queryStart, cursor] of the
\* line is replaced by the chosen entry's name, the cursor is put after the
\* name, and the provider asks for no further hint session
InsertHintAt(h, queryStart) ==
    [h EXCEPT !.text = SubSeq(h.text, 1, queryStart) \o h.name
                       \o SubSeq(h.text, h.cursor + 1, Len(h.text)),
              !.cursor = queryStart + Len(h.name),
              !.done = TRUE,
              !.ret = FALSE,
              !.was = [text |-> h.text, cursor |-> h.cursor]]

\* no hint was chosen; the hint insertion is not looked at
NoHint == [text |-> <<>>, cursor |-> 0, name |-> <<>>, done |-> TRUE,
           ret |-> FALSE, was |-> [text |-> <<>>, cursor |-> 0]]

\* ------------------------------------------------------------ hint provider
\* the program of the tests (unittests.js:199-326): file scope A with the
\* function funB (scope B), which holds the function funC (scope C); the
\* file refers to another file (scope D), which holds the function funE
\* (scope E)
Scopes == {"A", "B", "C", "D", "E"}

\* the scope a scope is nested in
Parent(s) ==
    CASE s = "B" -> "A"
      [] s = "C" -> "B"
      [] s = "E" -> "D"
      [] OTHER -> "none"

\* the file scopes a file scope refers to
References(s) == IF s = "A" THEN {"D"} ELSE {}

\* the names a scope declares, parameters of its function included
Declared(s) ==
    CASE s = "A" -> {"A1", "A2", "A3", "funB"}
      [] s = "B" -> {"B1", "B2", "paramB1", "paramB2", "funC"}
      [] s = "C" -> {"paramC1", "paramC2"}
      [] s = "D" -> {"D1", "D2", "funE"}
      [] s = "E" -> {"E1", "E2", "paramE1", "paramE2"}

Keywords == {"case", "function", "var"}

\* the receivers of the property lookups of the tests and the property
\* names observed on them
Receivers == {"A1", "B1"}
Properties(r) ==
    IF r = "A1" THEN {"propA", "propB", "propC"} ELSE {"propB"}

PropertyNames == UNION {Properties(r) : r \in Receivers}
DeclaredNames == UNION {Declared(s) : s \in Scopes}

\* the first letter of a name
Initial(name) ==
    CASE name \in {"A1", "A2", "A3"} -> "A"
      [] name \in {"B1", "B2"} -> "B"
      [] name \in {"D1", "D2"} -> "D"
      [] name \in {"E1", "E2"} -> "E"
      [] name \in {"funB", "funC", "funE", "function"} -> "f"
      [] name \in {"case"} -> "c"
      [] name \in {"var"} -> "v"
      [] OTHER -> "p"

\* the queries typed: nothing, or the first letter of a name
Queries == {"", "A", "p"}

\* a name stays in the list when it begins with the typed query
Matches(name, query) == query = "" \/ Initial(name) = query

\* the scopes that enclose a scope, itself included
RECURSIVE Enclosing(_)
Enclosing(s) ==
    IF s = "none" THEN {} ELSE {s} \cup Enclosing(Parent(s))

\* (variant: the names of every scope are visible)
Mut_VisibleEverywhere(s) == DeclaredNames
\* the names visible at a cursor in scope s: those declared in s or in a
\* scope that encloses it, and those of the file scopes referred to
VisibleNames(s) ==
    UNION {Declared(e) \cup UNION {Declared(f) : f \in References(e)} :
               e \in Enclosing(s)}

\* (variant: a property lookup also lists the names in scope)
Mut_PropertyWithScope(p) == Properties(p.recv) \cup VisibleNames(p.scope)
\* the candidates of a property lookup on the receiver of cursor context p
PropertyCandidates(p) == Properties(p.recv)

\* (variant: the query is not applied)
Mut_NoFilter(names, query) == names
\* the candidates that match the query
Filtered(names, query) == {n \in names : Matches(n, query)}

\* getHints: the names offered at cursor context p, whose kind tells whether
\* the token left of the cursor is an identifier, follows a property-access
\* operator, or is punctuation, a string or a comment
HintsAt(p) ==
    CASE p.kind = "prop" -> Filtered(PropertyCandidates(p), p.query)
      [] p.kind = "ident" ->
             Filtered(VisibleNames(p.scope) \cup Keywords, p.query)
      [] OTHER -> {}

\* the keys given to hasHints: none, an opening brace, the property-access
\* operator and a letter
Keys == {"none", "{", ".", "a"}

\* the cursor context once the key has been typed at context p
AfterKey(p, key) ==
    CASE key = "." /\ p.kind = "ident" /\ p.recv \in Receivers ->
             [p EXCEPT !.kind = "prop", !.query = ""]
      [] key = "a" /\ p.kind \in {"ident", "prop"} -> p
      [] key = "none" -> p
      [] OTHER -> [p EXCEPT !.kind = "punct"]

\* (variant: an opening brace offers hints where no key does)
Mut_HasHintsIgnoresKey(p, key, up) == up /\ HintsAt(p) # {}
\* hasHints: whether hints are offered when the key was just typed at
\* cursor context p, the analysis service being up or not
HasHintsAt(p, key, up) == up /\ HintsAt(AfterKey(p, key)) # {}

\* the cursor contexts: the scope of the cursor, the kind of the token left
\* of it, the query typed so far and the receiver the token names or follows
NoRecv == "none"
Contexts ==
    {p \in [scope : Scopes, kind : {"ident", "prop", "punct"},
            query : Queries, recv : Receivers \cup {NoRecv}] :
        /\ p.kind = "prop" => p.recv # NoRecv
        /\ p.kind = "punct" => (p.query = "" /\ p.recv = NoRecv)}

\* the cursor positions of the tests: line 6 column 0, line 5 column 10,
\* line 12 column 0, line 17 column 11 and line 17 column 10
TestOuter == [scope |-> "A", kind |-> "ident", query |-> "", recv |-> NoRecv]
TestQuery == [scope |-> "A", kind |-> "ident", query |-> "A", recv |-> NoRecv]
TestInner == [scope |-> "B", kind |-> "ident", query |-> "", recv |-> NoRecv]
TestProperty == [scope |-> "B", kind |-> "prop", query |-> "", recv |-> "B1"]
TestReceiver == [scope |-> "B", kind |-> "ident", query |-> "B", recv |-> "B1"]

\* where the cursor is moved to
CursorStops ==
    {TestOuter, TestQuery, TestInner, TestProperty, TestReceiver,
     [scope |-> "A", kind |-> "punct", query |-> "", recv |-> NoRecv]}

NoContext == [scope |-> "none", kind |-> "punct", query |-> "", recv |-> NoRecv]
NoResult == [id |-> 0, ctx |-> NoContext, hints |-> {}]

\* no hint session was run; the hint provider is not looked at
NoSession ==
    [ctx |-> NoContext, up |-> FALSE, key |-> "none", at |-> NoContext,
     has |-> "off", id |-> 0, state |-> "idle", pending |-> {},
     asked |-> <<>>, settled |-> <<>>, result |-> NoResult,
     applied |-> {}, dropped |-> {}]

\* ------------------------------------------------------------------ state
VARIABLES
    status,        \* per view: "unborn", "live" (constructed), "destroyed"
    cmText,        \* per view: the lines held by its surface (_codeMirror)
    duringSync,    \* per view: Editor.prototype._duringSync
    visibleRange,  \* per view: Editor.prototype._visibleRange
    masterEditor,  \* Document._masterEditor
    docText,       \* Document._text (the text while there is no master)
    refCount,      \* the Document's reference count
    stack,         \* the pending calls, innermost first; the outermost is
                   \* the return to the event loop
    thrown,        \* an exception escaped from the last operation
    op,            \* the operation in progress or last finished
    before,        \* per view: _visibleRange when the operation started
    editCount,     \* number of edits made so far; the id of the last one
    log,           \* per view: ids of the edits its surface has received
    hidden,        \* per view: the indices of the lines hidden on its surface
    cursorPos,     \* per view: the position last given to setCursorPos
    inlineWidgets, \* per view: Editor.prototype._inlineWidgets
    hosted,        \* per view: the widget ids its surface hosts
    requested,     \* per view: the widget ids whose removal was requested
    nextWidget,    \* per view: the number of widget ids its surface gave out
    visible,       \* per view: the surface's wrapper element is displayed
    closeCalls,    \* per view: the calls of closeCallback made so far
    lastShown,     \* the last setVisible call and the show callbacks it made
    kb,            \* a line of a surface, its selection and options, and
                   \* the key pressed on it
    hint,          \* a line, its cursor and the hint entry chosen on it
    sess           \* the cursor's context, the analysis service and the
                   \* hint sessions run

widgetVars == <<inlineWidgets, hosted, requested, nextWidget, visible,
                closeCalls, lastShown>>

\* what the synchronization handlers never touch
auxVars == <<cursorPos, widgetVars, kb, hint, sess>>

vars == <<status, cmText, duringSync, visibleRange, masterEditor, docText,
          refCount, stack, thrown, op, before, editCount, log, hidden,
          auxVars>>

Live == {v \in Views : status[v] = "live"}
Unborn == {v \in Views : status[v] = "unborn"}

\* Document.getText(): the master's text while there is one
GetText ==
    IF masterEditor # NoEditor THEN JoinLines(cmText[masterEditor])
    ELSE docText

Frame(o, v, cl, mk, rg) == [op |-> o, v |-> v, cl |-> cl, mk |-> mk, rg |-> rg]
Call(o, v, cl) == Frame(o, v, cl, FALSE, NoRange)

NoOp == [kind |-> "none", v |-> 0, id |-> 0, hadMaster |-> FALSE, cl |-> <<>>]

\* no position was set
NoPos == [line |-> -1, ch |-> -1]

\* setVisible was never called
NoShow == [v |-> 0, show |-> FALSE, calls |-> <<>>]

\* the state of the views' widgets, display and cursor before any call
AuxInit ==
    /\ cursorPos = [v \in Views |-> NoPos]
    /\ inlineWidgets = [v \in Views |-> <<>>]
    /\ hosted = [v \in Views |-> {}]
    /\ requested = [v \in Views |-> {}]
    /\ nextWidget = [v \in Views |-> 0]
    /\ visible = [v \in Views |-> TRUE]
    /\ closeCalls = [v \in Views |-> <<>>]
    /\ lastShown = NoShow
    /\ kb = NoKeys
    /\ hint = NoHint
    /\ sess = NoSession

\* ---------------------------------------------------------- initial state
InitTexts == {<<<<"a">>, <<"a">>>>}

Init ==
    /\ status = [v \in Views |-> "unborn"]
    /\ cmText = [v \in Views |-> <<<<>>>>]
    /\ duringSync = [v \in Views |-> FALSE]
    /\ visibleRange = [v \in Views |-> NoRange]
    /\ masterEditor = NoEditor
    /\ docText \in {JoinLines(t) : t \in InitTexts}
    /\ refCount = 0
    /\ stack = <<>>
    /\ thrown = FALSE
    /\ op = NoOp
    /\ before = [v \in Views |-> NoRange]
    /\ editCount = 0
    /\ log = [v \in Views |-> <<>>]
    /\ hidden = [v \in Views |-> {}]
    /\ AuxInit

\* --------------------------------------------- _applyChangesToEditor
\* the net number of lines one ranged record adds (Editor.js:366, 426)
NumAdded(change) ==
    Len(change.text) - (change.to.line - change.from.line + 1)

\* the test of Editor.js:349
\* (variant: only a record without both ends replaces the whole text)
Mut_IsFullTextBothOnly(change) ==
    change.from = Undefined /\ change.to = Undefined
IsFullText(change) == change.from = Undefined \/ change.to = Undefined

\* (variant: a bound the record ends on moves too)
Mut_AdjustRangeAtOrBefore(range, change) ==
    IF range = NoRange THEN NoRange
    ELSE [startLine |-> IF change.to.line <= range.startLine
                        THEN range.startLine + NumAdded(change)
                        ELSE range.startLine,
          endLine |-> IF change.to.line <= range.endLine
                      THEN range.endLine + NumAdded(change)
                      ELSE range.endLine]
\* the range of the target after one ranged record (Editor.js:364-372)
AdjustRange(range, change) ==
    IF range = NoRange THEN NoRange
    ELSE [startLine |-> IF change.to.line < range.startLine
                        THEN range.startLine + NumAdded(change)
                        ELSE range.startLine,
          endLine |-> IF change.to.line < range.endLine
                      THEN range.endLine + NumAdded(change)
                      ELSE range.endLine]

\* the lines the loop at Editor.js:373-377 hides after one ranged record:
\* those of the new text that lie outside the adjusted range
HideNewLines(hid, range, i, last, lineCount) ==
    LET outside == {n \in i..last : n < range.startLine \/ n > range.endLine}
    IN hid \cup {Max(0, Min(n, lineCount - 1)) : n \in outside}

\* a record without from or to (Editor.js:349-356): the whole text is set
\* and the range dropped
ApplyFull(text, newText) ==
    [text |-> SetValue(newText),
     range |-> NoRange,
     hidden |-> {},
     out |-> SetValueRecord(text, newText)]

\* a ranged record (Editor.js:357-378): replaced is the text after
\* replaceRange (358), adjusted the range after 364-372, shifted the hidden
\* lines after replaceRange; the loop at 373-377 runs for a view with a range
ApplyRanged(text, change, newText, replaced, adjusted, shifted) ==
    [text |-> replaced,
     range |-> adjusted,
     hidden |-> IF adjusted = NoRange THEN shifted
                ELSE HideNewLines(shifted, adjusted, change.from.line,
                                  change.from.line + Len(change.text) - 1,
                                  Len(replaced)),
     out |-> [from |-> ClipPos(text, change.from),
              to |-> ClipPos(text, change.to),
              text |-> SplitLines(newText)]]

\* one iteration of the loop of _applyChangesToEditor: the target's text,
\* range and hidden lines after the record, and the record its surface
\* reports
ApplyOne(text, range, hid, change) ==
    IF IsFullText(change)
    THEN ApplyFull(text, JoinLines(change.text))
    ELSE ApplyRanged(text, change, JoinLines(change.text),
                     ReplaceRange(text, JoinLines(change.text), change.from,
                                  change.to),
                     AdjustRange(range, change),
                     ShiftHidden(hid, text, JoinLines(change.text),
                                 change.from, change.to))

\* the loop of Editor.js:348-379 over the records of a change list
RECURSIVE ApplyChanges(_, _, _, _)
RECURSIVE ApplyNext(_, _)
ApplyNext(r, changeList) ==
    [ApplyChanges(r.text, r.range, r.hidden, changeList)
         EXCEPT !.out = <<r.out>> \o @]

ApplyChanges(text, range, hid, changeList) ==
    IF changeList = <<>>
    THEN [text |-> text, range |-> range, hidden |-> hid, out |-> <<>>]
    ELSE ApplyNext(ApplyOne(text, range, hid, Head(changeList)),
                   Tail(changeList))

\* the sum of the loop at Editor.js:425-427
RECURSIVE TotalAdded(_)
TotalAdded(changeList) ==
    IF changeList = <<>> THEN 0
    ELSE NumAdded(Head(changeList)) + TotalAdded(Tail(changeList))

\* (variant: the start line is moved as well)
Mut_OwnRangeMovesStart(range, changeList) ==
    IF range = NoRange THEN NoRange
    ELSE [startLine |-> range.startLine + TotalAdded(changeList),
          endLine |-> range.endLine + TotalAdded(changeList)]
\* Editor.js:420-432: the view's range after an edit on its own surface
OwnRange(range, changeList) ==
    IF range = NoRange THEN NoRange
    ELSE [startLine |-> range.startLine,
          endLine |-> range.endLine + TotalAdded(changeList)]

\* ------------------------------------------------------ listener dispatch
\* the handlers of the Document's "change" event (Editor.js:215-216, 324):
\* _handleDocumentChange of every view constructed and not destroyed, in the
\* order of construction
RECURSIVE DocListenersFrom(_, _)
DocListenersFrom(v, cl) ==
    IF v > MaxViews THEN <<>>
    ELSE (IF status[v] = "live" THEN <<Call("dc", v, cl)>> ELSE <<>>)
         \o DocListenersFrom(v + 1, cl)

\* (variant: a later subscription replaces the earlier ones)
Mut_DocListenersLastOnly(cl) ==
    IF Live = {} THEN <<>>
    ELSE <<Call("dc", CHOOSE v \in Live : \A w \in Live : w <= v, cl)>>
\* (variant: destroy leaves the view subscribed to the Document)
Mut_DocListenersKeepDestroyed(cl) ==
    [i \in 1..Cardinality(Views \ Unborn) |-> Call("dc", i, cl)]
\* the Document's listeners: the views constructed (Editor.js:216) and not
\* destroyed (Editor.js:323)
DocListeners(cl) == DocListenersFrom(1, cl)

\* $(self).triggerHandler("change", [self, changeList]) (Editor.js:473-475):
\* the handlers of a view's "change" event are its own _handleEditorChange
\* and, for the master, the Document's listener, which notifies the change
\* to the Document's own listeners
ChangeListeners(v, cl) ==
    <<Call("ec", v, cl)>> \o (IF masterEditor = v THEN DocListeners(cl) ELSE <<>>)

Top == stack[1]
Rest == Tail(stack)
\* no code is running: the event loop waits for the user or the host
Idle == stack = <<>>
\* the frame under every operation: control goes back to the event loop
ReturnFrame == Call("return", 0, <<>>)
\* every handler the operation triggered has returned (or an exception has
\* unwound them)
Returning == ~Idle /\ Top.op = "return"

\* the value of _duringSync tested at Editor.js:397
\* (variant: the test is missing)
Mut_EditorChangeNotSuppressed(v) == FALSE
EditorChangeSuppressed(v) == duringSync[v]
\* the value of _duringSync tested at Editor.js:445
\* (variant: the test is missing)
Mut_DocumentChangeNotSuppressed(v) == FALSE
DocumentChangeSuppressed(v) == duringSync[v]
\* the test of Editor.js:449: the view is not the Document's master
\* (variant: the master replays Document changes too)
Mut_MasterReplaysToo(v) == TRUE
DocumentChangeBySecondary(v) == masterEditor # v
\* the editor _handleEditorChange replays onto (Editor.js:412)
\* (variant: the view replays onto itself)
Mut_SyncTargetSelf(v) == v
EditorChangeSyncTarget(v) == masterEditor
\* the value _duringSync gets after a replay (Editor.js:287, 413, 457)
\* (variant: the flag is left raised)
Mut_FlagLeftRaised == TRUE
FlagAfterSync == FALSE

\* the value _duringSync has while the constructor loads the text
\* (Editor.js:285)
\* (variant: the load is not flagged)
Mut_LoadNotFlagged == FALSE
FlagDuringLoad == TRUE
\* the test of Editor.js:307
\* (variant: every new view is made the master)
Mut_CtorAlwaysMaster(mk) == TRUE
CtorMakesMaster(mk) == mk
\* the test of Editor.js:326
\* (variant: destroy never demotes the Document)
Mut_DestroyNeverDemotes(v) == FALSE
DestroyedIsMaster(v) == masterEditor = v
\* document.addRef() (Editor.js:214)
\* (variant: the constructor takes no reference)
Mut_AddRefSkipped(n) == n
AddRef(n) == n + 1
\* document.releaseRef() (Editor.js:323)
ReleaseRef(n) == n - 1

\* (variant: the end line of the range is hidden too)
Mut_CtorHidesEndLine(range, lineCount) ==
    {Max(0, Min(i, lineCount - 1)) : i \in 0..(range.startLine - 1)}
    \cup {i \in range.endLine..(lineCount - 1) : TRUE}
\* the lines the constructor hides for a range (Editor.js:294-300)
CtorHidden(range, lineCount) ==
    {Max(0, Min(i, lineCount - 1)) : i \in 0..(range.startLine - 1)}
    \cup {i \in (range.endLine + 1)..(lineCount - 1) : TRUE}

\* Editor.js:425-426 reads the line of from and to of every record: with one
\* of them undefined the read throws a TypeError
OwnRangeThrows(range, changeList) ==
    /\ range # NoRange
    /\ \E i \in 1..Len(changeList) : IsFullText(changeList[i])

\* the edits contained in a text loaded now: an edit in progress has not
\* reached the Document yet
EditsLoaded == IF Idle THEN editCount ELSE editCount - 1
Ids(n) == [i \in 1..n |-> i]

\* ------------------------------------------------------------ constructor
\* Editor.js:209-286: attach to the Document, then load its text with
\* _duringSync raised; the surface reports the load as a change
Construct(v, mk, rg, rest) ==
    LET loaded == GetText
    IN /\ status' = [status EXCEPT ![v] = "live"]
       /\ refCount' = AddRef(refCount)
       /\ duringSync' = [duringSync EXCEPT ![v] = FlagDuringLoad]
       /\ cmText' = [cmText EXCEPT ![v] = SetValue(loaded)]
       /\ hidden' = [hidden EXCEPT ![v] = {}]
       /\ log' = [log EXCEPT ![v] = Ids(EditsLoaded)]
       /\ stack' = ChangeListeners(v, <<SetValueRecord(cmText[v], loaded)>>)
                   \o <<Frame("ctor_done", v, <<>>, mk, rg)>> \o rest

ValidRanges(text) ==
    {r \in [startLine : 0..(Len(text) - 1), endLine : 0..(Len(text) - 1)] :
        r.startLine <= r.endLine}

\* new Editor(document, makeMasterEditor, ..., range)
Attach(mk, rg) ==
    /\ Idle
    /\ Unborn # {}
    /\ mk => masterEditor = NoEditor
    /\ rg \in ValidRanges(SplitLines(GetText)) \cup {NoRange}
    /\ rg # NoRange =>
           Cardinality({u \in Views : visibleRange[u] # NoRange}) < MaxRanged
    /\ LET v == CHOOSE u \in Unborn : \A w \in Unborn : u <= w
       IN /\ Construct(v, mk, rg, <<ReturnFrame>>)
          /\ op' = [NoOp EXCEPT !.kind = "attach", !.v = v,
                                !.hadMaster = masterEditor # NoEditor]
    /\ thrown' = FALSE
    /\ before' = visibleRange
    /\ UNCHANGED <<visibleRange, masterEditor, docText, editCount>>
    /\ UNCHANGED auxVars

\* Editor.js:287-310: the load is over; hide the lines outside the range and
\* make the Document editable
CtorDone ==
    /\ ~Idle
    /\ Top.op = "ctor_done"
    /\ duringSync' = [duringSync EXCEPT ![Top.v] = FlagAfterSync]
    /\ visibleRange' = [visibleRange EXCEPT ![Top.v] =
                            IF Top.rg # NoRange THEN Top.rg ELSE @]
    /\ hidden' = [hidden EXCEPT ![Top.v] =
                      IF Top.rg # NoRange
                      THEN CtorHidden(Top.rg, Len(cmText[Top.v])) ELSE @]
    /\ IF CtorMakesMaster(Top.mk)
       THEN masterEditor' = Top.v /\ docText' = NoText
       ELSE UNCHANGED <<masterEditor, docText>>
    /\ cursorPos' = [cursorPos EXCEPT ![Top.v] =
                         IF Top.rg # NoRange
                         THEN [line |-> Top.rg.startLine, ch |-> 0] ELSE @]
    /\ stack' = Rest
    /\ UNCHANGED <<status, cmText, refCount, thrown, op, before, editCount,
                   log, widgetVars, kb, hint,
                   sess>>

\* ---------------------------------------------------------- inline widgets
\* the ids of the records of a widget list, in list order
WidgetIds(list) == [i \in 1..Len(list) |-> list[i].id]

\* (variant: the last record is removed whatever the id)
Mut_RemoveInternalLast(list, id) == SubSeq(list, 1, Len(list) - 1)
\* Editor.prototype._removeInlineWidgetInternal (Editor.js:639-647): the
\* first record with the id is spliced out
RemoveInternal(list, id) ==
    IF \A i \in 1..Len(list) : list[i].id # id THEN list
    ELSE LET i == CHOOSE k \in 1..Len(list) :
                      list[k].id = id /\ \A j \in 1..(k - 1) : list[j].id # id
         IN SubSeq(list, 1, i - 1) \o SubSeq(list, i + 1, Len(list))

\* (variant: the caller's callback runs before the record is purged)
Mut_CallbackBeforePurge(list, purged) == list
\* the list a close callback called from the surface's notification sees:
\* Editor.js:618 purges the record, 619 calls the callback
CloseObserves(list, purged) == purged

\* one call of a closeCallback: the widget, the caller and the ids
\* getInlineWidgets() holds while the callback runs
CloseCall(id, by, list) == [id |-> id, by |-> by, saw |-> WidgetIds(list)]

\* (variant: destroy closes only the first widget of the list)
Mut_DestroyClosesFirst(list) == SubSeq(list, 1, Min(1, Len(list)))
\* the records whose closeCallback destroy calls (Editor.js:332-334)
DestroyCloses(list) == list

\* (variant: the show callbacks run on hide as well)
Mut_ShowAlways(show) == TRUE
\* the test of Editor.js:695
ShowCallbacksRun(show) == show

\* the calls of parentShowCallback made by setVisible (Editor.js:695-701)
ShowCalls(list, show) ==
    IF ShowCallbacksRun(show)
    THEN WidgetIds(SelectSeq(list, LAMBDA w : w.show))
    ELSE <<>>

\* the number of widget ids given out by the surfaces of a set of views
RECURSIVE WidgetsGiven(_)
WidgetsGiven(views) ==
    IF views = {} THEN 0
    ELSE LET v == CHOOSE u \in views : TRUE
         IN nextWidget[v] + WidgetsGiven(views \ {v})

\* Editor.prototype.addInlineWidget (Editor.js:614-624): the surface gives the
\* id, the record is pushed at the end of the list; hasShow tells whether a
\* parentShowCallback was passed
AddInlineWidget(v, hasShow) ==
    /\ Idle
    /\ status[v] = "live"
    /\ WidgetsGiven(Views) < MaxWidgets
    /\ nextWidget' = [nextWidget EXCEPT ![v] = @ + 1]
    /\ hosted' = [hosted EXCEPT ![v] = @ \cup {nextWidget[v] + 1}]
    /\ inlineWidgets' = [inlineWidgets EXCEPT ![v] =
                             Append(@, [id |-> nextWidget[v] + 1,
                                        show |-> hasShow])]
    /\ UNCHANGED <<status, cmText, duringSync, visibleRange, masterEditor,
                   docText, refCount, stack, thrown, op, before, editCount,
                   log, hidden, cursorPos, requested, visible, closeCalls,
                   lastShown, kb, hint,
                   sess>>

\* Editor.prototype.removeInlineWidget (Editor.js:630-633): the request goes
\* to the surface, which notifies the removal later
RemoveInlineWidget(v, id) ==
    /\ Idle
    /\ status[v] = "live"
    /\ id \in hosted[v] \ requested[v]
    /\ requested' = [requested EXCEPT ![v] = @ \cup {id}]
    /\ UNCHANGED <<status, cmText, duringSync, visibleRange, masterEditor,
                   docText, refCount, stack, thrown, op, before, editCount,
                   log, hidden, cursorPos, inlineWidgets, hosted, nextWidget,
                   visible, closeCalls, lastShown, kb, hint,
                   sess>>

\* the surface notifies the removal of a widget it hosts, on request or on
\* its own (the closure of Editor.js:617-620)
WidgetRemoved(v, id) ==
    /\ Idle
    /\ status[v] # "unborn"
    /\ id \in hosted[v]
    /\ hosted' = [hosted EXCEPT ![v] = @ \ {id}]
    /\ requested' = [requested EXCEPT ![v] = @ \ {id}]
    /\ inlineWidgets' = [inlineWidgets EXCEPT ![v] = RemoveInternal(@, id)]
    /\ closeCalls' = [closeCalls EXCEPT ![v] =
                          Append(@, CloseCall(id, "surface",
                                     CloseObserves(inlineWidgets[v],
                                         RemoveInternal(inlineWidgets[v],
                                                        id))))]
    /\ UNCHANGED <<status, cmText, duringSync, visibleRange, masterEditor,
                   docText, refCount, stack, thrown, op, before, editCount,
                   log, hidden, cursorPos, nextWidget, visible, lastShown,
                   kb, hint,
                   sess>>

\* Editor.prototype.setVisible (Editor.js:692-702)
SetVisible(v, show) ==
    /\ Idle
    /\ status[v] = "live"
    /\ visible' = [visible EXCEPT ![v] = show]
    /\ lastShown' = [v |-> v, show |-> show,
                 calls |-> ShowCalls(inlineWidgets[v], show)]
    /\ UNCHANGED <<status, cmText, duringSync, visibleRange, masterEditor,
                   docText, refCount, stack, thrown, op, before, editCount,
                   log, hidden, cursorPos, inlineWidgets, hosted, requested,
                   nextWidget, closeCalls, kb, hint,
                   sess>>

\* ---------------------------------------------------------------- destroy
\* Editor.prototype.destroy (Editor.js:317-335)
Destroy(v) ==
    /\ Idle
    /\ status[v] = "live"
    /\ status' = [status EXCEPT ![v] = "destroyed"]
    /\ refCount' = ReleaseRef(refCount)
    /\ IF DestroyedIsMaster(v)
       THEN masterEditor' = NoEditor /\ docText' = JoinLines(cmText[v])
       ELSE UNCHANGED <<masterEditor, docText>>
    /\ log' = [log EXCEPT ![v] = <<>>]
    /\ closeCalls' = [closeCalls EXCEPT ![v] =
                          @ \o [i \in 1..Len(DestroyCloses(inlineWidgets[v]))
                                 |-> CloseCall(
                                         DestroyCloses(inlineWidgets[v])[i].id,
                                         "destroy", inlineWidgets[v])]]
    /\ UNCHANGED <<cmText, duringSync, visibleRange, stack, thrown, op,
                   before, editCount, hidden, cursorPos, inlineWidgets,
                   hosted, requested, nextWidget, visible, lastShown, kb,
                   hint, sess>>

\* ------------------------------------------------------- edits by the user
TextInputs == {<<<<"b">>>>, <<<<"b">>, <<"b">>>>}

LineStart(text, l) == [line |-> l, ch |-> 0]
LineEnd(text, l) == [line |-> l, ch |-> Len(text[l + 1])]

Visible(range, l) ==
    range = NoRange \/ (range.startLine <= l /\ l <= range.endLine)

WithinBounds(text) == Len(text) <= MaxLines

\* the user replaces the visible lines l1..l2 of a view's surface by the
\* lines of `text`; the surface reports the change (Editor.js:473-475)
GenuineEdit(v, l1, l2, text) ==
    /\ Idle
    /\ status[v] = "live"
    /\ editCount < MaxEdits
    /\ masterEditor # NoEditor \/ Unborn # {}
    /\ l1 <= l2 /\ l2 < Len(cmText[v])
    /\ Visible(visibleRange[v], l1) /\ Visible(visibleRange[v], l2)
    /\ LET from == LineStart(cmText[v], l1)
           to == LineEnd(cmText[v], l2)
           change == [from |-> from, to |-> to, text |-> text]
           new == ReplaceRange(cmText[v], JoinLines(text), from, to)
       IN /\ WithinBounds(new)
          /\ cmText' = [cmText EXCEPT ![v] = new]
          /\ hidden' = [hidden EXCEPT ![v] =
                            ShiftHidden(@, cmText[v], JoinLines(text), from,
                                        to)]
          /\ stack' = ChangeListeners(v, <<change>>) \o <<ReturnFrame>>
          /\ op' = [kind |-> "edit", v |-> v, id |-> editCount + 1,
                    hadMaster |-> masterEditor # NoEditor, cl |-> <<change>>]
    /\ editCount' = editCount + 1
    /\ log' = [log EXCEPT ![v] = Append(@, editCount + 1)]
    /\ thrown' = FALSE
    /\ before' = visibleRange
    /\ UNCHANGED <<status, duringSync, visibleRange, masterEditor, docText,
                   refCount>>
    /\ UNCHANGED auxVars

\* the host replaces the Document's text: through the master's surface while
\* there is one, else in the Document, which then notifies a record without
\* from and to
DocRefresh(text) ==
    /\ Idle
    /\ editCount < MaxEdits
    /\ WithinBounds(text)
    /\ IF masterEditor # NoEditor
       THEN /\ cmText' = [cmText EXCEPT ![masterEditor] =
                              SetValue(JoinLines(text))]
            /\ stack' = ChangeListeners(masterEditor,
                               <<SetValueRecord(cmText[masterEditor],
                                                JoinLines(text))>>)
                          \o <<ReturnFrame>>
            /\ log' = [log EXCEPT ![masterEditor] = Append(@, editCount + 1)]
            /\ hidden' = [hidden EXCEPT ![masterEditor] = {}]
            /\ UNCHANGED docText
       ELSE /\ docText' = JoinLines(text)
            /\ stack' = DocListeners(<<[from |-> Undefined, to |-> Undefined,
                                        text |-> text]>>) \o <<ReturnFrame>>
            /\ UNCHANGED <<cmText, log, hidden>>
    /\ op' = [kind |-> "refresh", v |-> masterEditor, id |-> editCount + 1,
              hadMaster |-> masterEditor # NoEditor, cl |-> <<>>]
    /\ editCount' = editCount + 1
    /\ thrown' = FALSE
    /\ before' = visibleRange
    /\ UNCHANGED <<status, duringSync, visibleRange, masterEditor, refCount>>
    /\ UNCHANGED auxVars

\* ------------------------------------------------------- change handlers
\* Editor.js:406-432 for view v: a secondary raises its flag and replays the
\* records onto the master, whose surface reports them; the master adjusts
\* its own range and returns
EcSync(v, cl) ==
    IF masterEditor # v
    THEN LET target == EditorChangeSyncTarget(v)
             r == ApplyChanges(cmText[target], visibleRange[target],
                               hidden[target], cl)
         IN /\ duringSync' = [duringSync EXCEPT ![v] = TRUE]
            /\ cmText' = [cmText EXCEPT ![target] = r.text]
            /\ visibleRange' = [visibleRange EXCEPT ![target] = r.range]
            /\ hidden' = [hidden EXCEPT ![target] = r.hidden]
            /\ log' = [log EXCEPT ![target] = Append(@, op.id)]
            /\ stack' = ChangeListeners(target, r.out)
                          \o <<Call("ec_done", v, cl)>> \o Rest
            /\ UNCHANGED thrown
    ELSE IF OwnRangeThrows(visibleRange[v], cl)
    THEN /\ stack' = <<ReturnFrame>>
         /\ thrown' = TRUE
         /\ UNCHANGED <<duringSync, cmText, visibleRange, hidden, log>>
    ELSE /\ visibleRange' = [visibleRange EXCEPT ![v] = OwnRange(@, cl)]
         /\ stack' = Rest
         /\ UNCHANGED <<duringSync, cmText, hidden, log, thrown>>

\* Editor.prototype._handleEditorChange from its first line (Editor.js:395):
\* return if the flag is set; with no master, have EditorManager construct
\* one (Editor.js:402-404), else go on at Editor.js:406
EditorChange ==
    /\ ~Idle
    /\ Top.op = "ec"
    /\ IF EditorChangeSuppressed(Top.v)
       THEN /\ stack' = Rest
            /\ UNCHANGED <<status, cmText, duringSync, visibleRange, refCount,
                           log, hidden, thrown>>
       ELSE IF masterEditor = NoEditor
       THEN /\ Unborn # {}
            /\ LET m == CHOOSE u \in Unborn : \A w \in Unborn : u <= w
               IN Construct(m, TRUE, NoRange,
                            <<Call("ec_sync", Top.v, Top.cl)>> \o Rest)
            /\ UNCHANGED <<visibleRange, thrown>>
       ELSE /\ EcSync(Top.v, Top.cl)
            /\ UNCHANGED <<status, refCount>>
    /\ UNCHANGED <<masterEditor, docText, op, before, editCount>>
    /\ UNCHANGED auxVars

\* _handleEditorChange after EditorManager returned (Editor.js:406)
EditorChangeSync ==
    /\ ~Idle
    /\ Top.op = "ec_sync"
    /\ masterEditor # NoEditor
    /\ EcSync(Top.v, Top.cl)
    /\ UNCHANGED <<status, masterEditor, docText, refCount, op, before,
                   editCount>>
    /\ UNCHANGED auxVars

\* _handleEditorChange after the replay returned (Editor.js:413-432)
EditorChangeDone ==
    /\ ~Idle
    /\ Top.op = "ec_done"
    /\ duringSync' = [duringSync EXCEPT ![Top.v] = FlagAfterSync]
    /\ IF OwnRangeThrows(visibleRange[Top.v], Top.cl)
       THEN /\ stack' = <<ReturnFrame>>
            /\ thrown' = TRUE
            /\ UNCHANGED visibleRange
       ELSE /\ visibleRange' = [visibleRange EXCEPT ![Top.v] =
                                    OwnRange(@, Top.cl)]
            /\ stack' = Rest
            /\ UNCHANGED thrown
    /\ UNCHANGED <<status, cmText, masterEditor, docText, refCount, op,
                   before, editCount, log, hidden>>
    /\ UNCHANGED auxVars

\* Editor.prototype._handleDocumentChange (Editor.js:443-456)
DocumentChange ==
    /\ ~Idle
    /\ Top.op = "dc"
    /\ IF DocumentChangeSuppressed(Top.v) \/ ~DocumentChangeBySecondary(Top.v)
       THEN /\ stack' = Rest
            /\ UNCHANGED <<cmText, duringSync, visibleRange, log, hidden>>
       ELSE LET v == Top.v
                r == ApplyChanges(cmText[v], visibleRange[v], hidden[v],
                                  Top.cl)
            IN /\ duringSync' = [duringSync EXCEPT ![v] = TRUE]
               /\ cmText' = [cmText EXCEPT ![v] = r.text]
               /\ visibleRange' = [visibleRange EXCEPT ![v] = r.range]
               /\ hidden' = [hidden EXCEPT ![v] = r.hidden]
               /\ log' = [log EXCEPT ![v] = Append(@, op.id)]
               /\ stack' = ChangeListeners(v, r.out)
                             \o <<Call("dc_done", v, Top.cl)>> \o Rest
    /\ UNCHANGED <<status, masterEditor, docText, refCount, thrown, op,
                   before, editCount>>
    /\ UNCHANGED auxVars

\* _handleDocumentChange after the replay returned (Editor.js:457)
DocumentChangeDone ==
    /\ ~Idle
    /\ Top.op = "dc_done"
    /\ duringSync' = [duringSync EXCEPT ![Top.v] = FlagAfterSync]
    /\ stack' = Rest
    /\ UNCHANGED <<status, cmText, visibleRange, masterEditor, docText,
                   refCount, thrown, op, before, editCount, log, hidden>>
    /\ UNCHANGED auxVars

\* the operation is over: control is back in the event loop
Return ==
    /\ Returning
    /\ stack' = <<>>
    /\ op' = NoOp
    /\ before' = [v \in Views |-> NoRange]
    /\ thrown' = FALSE
    /\ UNCHANGED <<status, cmText, duringSync, visibleRange, masterEditor,
                   docText, refCount, editCount, log, hidden>>
    /\ UNCHANGED auxVars

\* ---------------------------------------------------------- specification
\* the views are full editors: none is given a range
Next ==
    \/ \E mk \in BOOLEAN : Attach(mk, NoRange)
    \/ \E v \in Views : Destroy(v)
    \/ \E v \in Views, l1, l2 \in 0..(MaxLines - 1), text \in TextInputs :
          GenuineEdit(v, l1, l2, text)
    \/ \E text \in TextInputs : DocRefresh(text)
    \/ EditorChange
    \/ EditorChangeSync
    \/ EditorChangeDone
    \/ DocumentChange
    \/ DocumentChangeDone
    \/ CtorDone
    \/ Return

Spec == Init /\ [][Next]_vars

\* views may also be constructed with a range (inline editors)
NextRange ==
    \/ Next
    \/ \E mk \in BOOLEAN, rg \in [startLine : 0..(MaxLines - 1),
                                 endLine : 0..(MaxLines - 1)] : Attach(mk, rg)

RangeSpec == Init /\ [][NextRange]_vars

\* views that host inline widgets: widgets are added, removed on request or
\* by the surface, the views shown, hidden and destroyed
NextWidgets ==
    \/ \E mk \in BOOLEAN : Attach(mk, NoRange)
    \/ EditorChange
    \/ CtorDone
    \/ Return
    \/ \E v \in Views : Destroy(v)
    \/ \E v \in Views, hasShow \in BOOLEAN : AddInlineWidget(v, hasShow)
    \/ \E v \in Views, id \in 1..MaxWidgets : RemoveInlineWidget(v, id)
    \/ \E v \in Views, id \in 1..MaxWidgets : WidgetRemoved(v, id)
    \/ \E v \in Views, show \in BOOLEAN : SetVisible(v, show)

WidgetSpec == Init /\ [][NextWidgets]_vars

\* ------------------------------------------------- keys pressed on a line
\* the longest line, and the largest tab size, looked at
MaxCols == 4
MaxTab == 3

\* the lines of at most MaxCols characters: spaces, tabs and a letter
KeyLines ==
    UNION {[1..n -> {" ", "\t", "x"}] : n \in 0..MaxCols}

\* Tab, Left, Right, Backspace and Delete of the key map (Editor.js:223-253)
\* act on the surface's line, selection and options
KeyTab ==
    /\ kb.key = "none"
    /\ kb' = [HandleTabKey(kb) EXCEPT !.key = "Tab"]
    /\ UNCHANGED <<status, cmText, duringSync, visibleRange, masterEditor,
                   docText, refCount, stack, thrown, op, before, editCount,
                   log, hidden, cursorPos, widgetVars, hint,
                   sess>>

KeyNav(key, direction, fn, single) ==
    /\ kb.key = "none"
    /\ kb.from = kb.to
    /\ ~kb.multi
    /\ kb' = [HandleNavKey(kb, direction, fn, single) EXCEPT !.key = key]
    /\ UNCHANGED <<status, cmText, duringSync, visibleRange, masterEditor,
                   docText, refCount, stack, thrown, op, before, editCount,
                   log, hidden, cursorPos, widgetVars, hint,
                   sess>>

KeyLeft == KeyNav("Left", -1, "moveH", "goCharLeft")
KeyRight == KeyNav("Right", 1, "moveH", "goCharRight")
KeyBackspace == KeyNav("Backspace", -1, "deleteH", "delCharLeft")
KeyDelete == KeyNav("Delete", 1, "deleteH", "delCharRight")

\* a surface with one line, a selection that begins on it, its options and
\* the indentation the mode computes for the line; no key pressed yet
KeyInit ==
    /\ status = [v \in Views |-> "unborn"]
    /\ cmText = [v \in Views |-> <<<<>>>>]
    /\ duringSync = [v \in Views |-> FALSE]
    /\ visibleRange = [v \in Views |-> NoRange]
    /\ masterEditor = NoEditor
    /\ docText \in {JoinLines(t) : t \in InitTexts}
    /\ refCount = 0
    /\ stack = <<>>
    /\ thrown = FALSE
    /\ op = NoOp
    /\ before = [v \in Views |-> NoRange]
    /\ editCount = 0
    /\ log = [v \in Views |-> <<>>]
    /\ hidden = [v \in Views |-> {}]
    /\ cursorPos = [v \in Views |-> NoPos]
    /\ inlineWidgets = [v \in Views |-> <<>>]
    /\ hosted = [v \in Views |-> {}]
    /\ requested = [v \in Views |-> {}]
    /\ nextWidget = [v \in Views |-> 0]
    /\ visible = [v \in Views |-> TRUE]
    /\ closeCalls = [v \in Views |-> <<>>]
    /\ lastShown = NoShow
    /\ hint = NoHint
    /\ sess = NoSession
    /\ \E line \in KeyLines, multi, withTabs \in BOOLEAN,
          tabSize \in 2..MaxTab, auto \in 0..MaxCols :
         \E from \in 0..Len(line), to \in 0..MaxCols :
            /\ ~multi => (from <= to /\ to <= Len(line))
            /\ kb = [key |-> "none", line |-> line, from |-> from,
                     to |-> to, multi |-> multi, tabSize |-> tabSize,
                     withTabs |-> withTabs, auto |-> auto, cmds |-> <<>>,
                     n |-> 0, offLine |-> 0,
                     was |-> [line |-> line, from |-> from, to |-> to]]

NextKeys == KeyTab \/ KeyLeft \/ KeyRight \/ KeyBackspace \/ KeyDelete

KeySpec == KeyInit /\ [][NextKeys]_vars

\* --------------------------------------------------- a hint chosen on a line
\* the longest line looked at besides those of the tests
MaxHintLen == 3

\* the lines, cursors and chosen names of the tests of unittests.js:328-420
TestHints ==
    { [text |-> <<>>, cursor |-> 0, name |-> <<"b", "o", "o", "l">>],
      [text |-> <<"v", "a", "r", " ", "A", "3", " ", "=", " ", "A", "2",
                  ";">>,
       cursor |-> 10, name |-> <<"A", "3">>],
      [text |-> <<"A", "1", ".">>, cursor |-> 3,
       name |-> <<"p", "r", "o", "p", "A">>],
      [text |-> <<"A", "1", ".", "p", "r", "o", "p">>, cursor |-> 3,
       name |-> <<"p", "r", "o", "p", "A">>],
      [text |-> <<"A", "1", ".", "p", "r", "o">>, cursor |-> 6,
       name |-> <<"p", "r", "o", "p", "A">>],
      [text |-> <<"A", "1", ".", "p", "r", "o", "p", "B">>, cursor |-> 6,
       name |-> <<"p", "r", "o", "p", "A">>] }

\* every line of at most MaxHintLen characters with every cursor column
SmallHints ==
    UNION {{[text |-> t, cursor |-> c, name |-> nm] :
                t \in [1..n -> {"a", ".", " "}], c \in 0..n,
                nm \in {<<"a">>, <<"a", "b">>}} : n \in 0..MaxHintLen}

\* tsHintProvider.insertHint, called with the chosen entry
InsertHint ==
    /\ ~hint.done
    /\ hint' = InsertHintAt(hint, QueryStart(hint.text, hint.cursor))
    /\ UNCHANGED <<status, cmText, duringSync, visibleRange, masterEditor,
                   docText, refCount, stack, thrown, op, before, editCount,
                   log, hidden, cursorPos, widgetVars, kb, sess>>

\* a hint session is open on a line and an entry is about to be chosen
HintInit ==
    /\ status = [v \in Views |-> "unborn"]
    /\ cmText = [v \in Views |-> <<<<>>>>]
    /\ duringSync = [v \in Views |-> FALSE]
    /\ visibleRange = [v \in Views |-> NoRange]
    /\ masterEditor = NoEditor
    /\ docText \in {JoinLines(t) : t \in InitTexts}
    /\ refCount = 0
    /\ stack = <<>>
    /\ thrown = FALSE
    /\ op = NoOp
    /\ before = [v \in Views |-> NoRange]
    /\ editCount = 0
    /\ log = [v \in Views |-> <<>>]
    /\ hidden = [v \in Views |-> {}]
    /\ cursorPos = [v \in Views |-> NoPos]
    /\ inlineWidgets = [v \in Views |-> <<>>]
    /\ hosted = [v \in Views |-> {}]
    /\ requested = [v \in Views |-> {}]
    /\ nextWidget = [v \in Views |-> 0]
    /\ visible = [v \in Views |-> TRUE]
    /\ closeCalls = [v \in Views |-> <<>>]
    /\ lastShown = NoShow
    /\ kb = NoKeys
    /\ sess = NoSession
    /\ \E h \in TestHints \cup SmallHints :
          hint = [text |-> h.text, cursor |-> h.cursor, name |-> h.name,
                  done |-> FALSE, ret |-> TRUE,
                  was |-> [text |-> h.text, cursor |-> h.cursor]]

NextHints == InsertHint

HintSpec == HintInit /\ [][NextHints]_vars

\* ------------------------------------------------------ hint sessions
\* the number of hint sessions looked at
MaxSessions == 2

\* a session is current while it is the last one started and still waits
\* for its result
\* (variant: every result is taken as the current session's)
Mut_AnyIsCurrent(s, i) == TRUE
IsCurrent(s, i) == s.id = i /\ s.state = "queried"

\* (variant: a settled query stays in flight)
Mut_StaysPending(pending, i) == pending
\* the queries in flight once query i has settled
AfterSettle(pending, i) == pending \ {i}

\* the session the host gives up when the cursor moves or another session
\* starts
Abandon(s) ==
    [s EXCEPT !.state = IF s.state \in {"queried", "resolved"}
                        THEN "abandoned" ELSE s.state,
              !.result = NoResult]

\* hasHints(editor, key): the key, if any, has just been typed at the cursor
ProviderHasHints(key) ==
    /\ sess.has # "off"
    /\ sess' = [Abandon(sess) EXCEPT
                   !.key = key,
                   !.at = sess.ctx,
                   !.ctx = AfterKey(sess.ctx, key),
                   !.has = IF HasHintsAt(sess.ctx, key, sess.up)
                           THEN "yes" ELSE "no"]
    /\ UNCHANGED <<status, cmText, duringSync, visibleRange, masterEditor,
                   docText, refCount, stack, thrown, op, before, editCount,
                   log, hidden, cursorPos, widgetVars, kb, hint>>

\* getHints(key), called after hasHints returned true: a session starts; the
\* list is returned at once, or deferred until the analysis service answers
ProviderGetHints(deferred) ==
    /\ sess.has = "yes"
    /\ sess.id < MaxSessions
    /\ sess' = [sess EXCEPT
                   !.has = "unasked",
                   !.key = "none",
                   !.at = NoContext,
                   !.id = sess.id + 1,
                   !.asked = Append(sess.asked, sess.ctx),
                   !.settled = Append(sess.settled,
                                      IF deferred THEN 0 ELSE 1),
                   !.state = IF deferred THEN "queried" ELSE "resolved",
                   !.pending = IF deferred THEN sess.pending \cup {sess.id + 1}
                               ELSE sess.pending,
                   !.result = IF deferred THEN NoResult
                              ELSE [id |-> sess.id + 1, ctx |-> sess.ctx,
                                    hints |-> HintsAt(sess.ctx)]]
    /\ UNCHANGED <<status, cmText, duringSync, visibleRange, masterEditor,
                   docText, refCount, stack, thrown, op, before, editCount,
                   log, hidden, cursorPos, widgetVars, kb, hint>>

\* the analysis service answers query i: the list goes to the session when
\* it still waits for it and is dropped otherwise
ProviderResolve(i) ==
    /\ i \in sess.pending
    /\ sess.up
    /\ sess' = [sess EXCEPT
                   !.pending = AfterSettle(sess.pending, i),
                   !.settled[i] = @ + 1,
                   !.asked[i] = NoContext,
                   !.state = IF IsCurrent(sess, i) THEN "resolved" ELSE @,
                   !.result = IF IsCurrent(sess, i)
                              THEN [id |-> i, ctx |-> sess.asked[i],
                                    hints |-> HintsAt(sess.asked[i])]
                              ELSE @,
                   !.dropped = IF IsCurrent(sess, i) THEN @ ELSE @ \cup {i}]
    /\ UNCHANGED <<status, cmText, duringSync, visibleRange, masterEditor,
                   docText, refCount, stack, thrown, op, before, editCount,
                   log, hidden, cursorPos, widgetVars, kb, hint>>

\* the analysis service fails on query i
ProviderReject(i) ==
    /\ i \in sess.pending
    /\ ~sess.up
    /\ sess' = [sess EXCEPT
                   !.pending = AfterSettle(sess.pending, i),
                   !.settled[i] = @ + 1,
                   !.asked[i] = NoContext,
                   !.state = IF IsCurrent(sess, i) THEN "rejected" ELSE @,
                   !.dropped = IF IsCurrent(sess, i) THEN @ ELSE @ \cup {i}]
    /\ UNCHANGED <<status, cmText, duringSync, visibleRange, masterEditor,
                   docText, refCount, stack, thrown, op, before, editCount,
                   log, hidden, cursorPos, widgetVars, kb, hint>>

\* the user moves the cursor: the session in progress is given up
ProviderMoveCursor(c) ==
    /\ sess.has # "off"
    /\ c # sess.ctx
    /\ sess' = [Abandon(sess) EXCEPT !.ctx = c, !.has = "unasked",
                                     !.key = "none", !.at = NoContext]
    /\ UNCHANGED <<status, cmText, duringSync, visibleRange, masterEditor,
                   docText, refCount, stack, thrown, op, before, editCount,
                   log, hidden, cursorPos, widgetVars, kb, hint>>

\* insertHint(entry) with an entry of the list the session shows
ProviderInsertHint(name) ==
    /\ sess.state = "resolved"
    /\ name \in sess.result.hints
    /\ sess' = [sess EXCEPT !.state = "applied",
                            !.has = "unasked",
                            !.key = "none",
                            !.at = NoContext,
                            !.applied = @ \cup {sess.result.id},
                            !.result = NoResult]
    /\ UNCHANGED <<status, cmText, duringSync, visibleRange, masterEditor,
                   docText, refCount, stack, thrown, op, before, editCount,
                   log, hidden, cursorPos, widgetVars, kb, hint>>

\* the analysis service becomes unavailable, or available again
ProviderService(up) ==
    /\ sess.has # "off"
    /\ up # sess.up
    /\ sess' = [sess EXCEPT !.up = up, !.has = "unasked",
                            !.key = "none", !.at = NoContext]
    /\ UNCHANGED <<status, cmText, duringSync, visibleRange, masterEditor,
                   docText, refCount, stack, thrown, op, before, editCount,
                   log, hidden, cursorPos, widgetVars, kb, hint>>

\* the cursor is at any context, no session has run
ProviderInit ==
    /\ status = [v \in Views |-> "unborn"]
    /\ cmText = [v \in Views |-> <<<<>>>>]
    /\ duringSync = [v \in Views |-> FALSE]
    /\ visibleRange = [v \in Views |-> NoRange]
    /\ masterEditor = NoEditor
    /\ docText \in {JoinLines(t) : t \in InitTexts}
    /\ refCount = 0
    /\ stack = <<>>
    /\ thrown = FALSE
    /\ op = NoOp
    /\ before = [v \in Views |-> NoRange]
    /\ editCount = 0
    /\ log = [v \in Views |-> <<>>]
    /\ hidden = [v \in Views |-> {}]
    /\ cursorPos = [v \in Views |-> NoPos]
    /\ inlineWidgets = [v \in Views |-> <<>>]
    /\ hosted = [v \in Views |-> {}]
    /\ requested = [v \in Views |-> {}]
    /\ nextWidget = [v \in Views |-> 0]
    /\ visible = [v \in Views |-> TRUE]
    /\ closeCalls = [v \in Views |-> <<>>]
    /\ lastShown = NoShow
    /\ kb = NoKeys
    /\ hint = NoHint
    /\ \E c \in Contexts, up \in BOOLEAN :
          sess = [NoSession EXCEPT !.ctx = c, !.up = up, !.has = "unasked"]

NextProvider ==
    \/ \E key \in Keys : ProviderHasHints(key)
    \/ \E deferred \in BOOLEAN : ProviderGetHints(deferred)
    \/ \E i \in 1..MaxSessions : ProviderResolve(i)
    \/ \E i \in 1..MaxSessions : ProviderReject(i)
    \/ \E c \in CursorStops : ProviderMoveCursor(c)
    \/ \E name \in DeclaredNames \cup PropertyNames \cup Keywords :
          ProviderInsertHint(name)
    \/ \E up \in BOOLEAN : ProviderService(up)

ProviderSpec == ProviderInit /\ [][NextProvider]_vars

\* ------------------------------------------- one notification, any records
\* the texts a surface holds when the notification arrives
HandlerTexts == {[i \in 1..n |-> <<"a">>] : n \in 1..MaxLines}

\* the first record of a change list: from and to name any lines, in any
\* order, or are undefined
HeadRecords ==
    [from : {Undefined} \cup {[line |-> l, ch |-> 0] : l \in 0..(MaxLines - 1)},
     to : {Undefined} \cup {[line |-> l, ch |-> 1] : l \in 0..(MaxLines - 1)},
     text : TextInputs]

\* the later records of a change list: one line replaced
NextRecords ==
    [from : {[line |-> l, ch |-> 0] : l \in 0..(MaxLines - 1)},
     to : {[line |-> l, ch |-> 1] : l \in 0..(MaxLines - 1)},
     text : TextInputs]

RECURSIVE NextLists(_)
NextLists(n) ==
    IF n = 0 THEN {<<>>}
    ELSE {<<>>} \cup {<<r>> \o l : r \in {q \in NextRecords :
                                              q.from.line = q.to.line},
                                  l \in NextLists(n - 1)}

ChangeLists == {<<r>> \o l : r \in HeadRecords, l \in NextLists(MaxRecords - 1)}

\* every position of every record names a line of the text the record is
\* applied to
RECURSIVE WellPlaced(_, _)
WellPlaced(text, changeList) ==
    IF changeList = <<>> THEN TRUE
    ELSE LET c == Head(changeList)
         IN /\ c.from # Undefined => c.from.line < Len(text)
            /\ c.to # Undefined => c.to.line < Len(text)
            /\ WellPlaced(ApplyOne(text, NoRange, {}, c).text,
                          Tail(changeList))

\* views 1 and 2 show the Document, view m is its master and view 1 may own a
\* range; the surface of view e has just changed by changeList and reports it
\* (Editor.js:473-475)
HandlerInitFor(text, range, changeList, m, e) ==
    LET own == ApplyChanges(text, NoRange, CtorHidden(range, Len(text)),
                            changeList)
        shown == {1, 2}
    IN /\ status = [v \in Views |-> IF v \in shown THEN "live" ELSE "unborn"]
       /\ cmText = [v \in Views |-> IF v = e THEN own.text
                                    ELSE IF v \in shown THEN text
                                    ELSE <<<<>>>>]
       /\ duringSync = [v \in Views |-> FALSE]
       /\ visibleRange = [v \in Views |-> IF v = 1 THEN range ELSE NoRange]
       /\ hidden = [v \in Views |->
                       IF v # 1 \/ range = NoRange THEN {}
                       ELSE IF e = 1 THEN own.hidden
                       ELSE CtorHidden(range, Len(text))]
       /\ masterEditor = m
       /\ docText = NoText
       /\ refCount = 2
       /\ stack = [v \in Views |-> ChangeListeners(v, changeList)][e]
                       \o <<ReturnFrame>>
       /\ thrown = FALSE
       /\ op = [kind |-> "edit", v |-> e, id |-> 1, hadMaster |-> TRUE,
                cl |-> changeList]
       /\ before = [v \in Views |-> IF v = 1 THEN range ELSE NoRange]
       /\ editCount = 1
       /\ log = [v \in Views |-> IF v = e THEN <<1>> ELSE <<>>]
       /\ cursorPos = [v \in Views |-> IF v = 1 /\ range # NoRange
                                        THEN [line |-> range.startLine,
                                              ch |-> 0]
                                        ELSE NoPos]
       /\ inlineWidgets = [v \in Views |-> <<>>]
       /\ hosted = [v \in Views |-> {}]
       /\ requested = [v \in Views |-> {}]
       /\ nextWidget = [v \in Views |-> 0]
       /\ visible = [v \in Views |-> TRUE]
       /\ closeCalls = [v \in Views |-> <<>>]
       /\ lastShown = NoShow
       /\ kb = NoKeys
       /\ hint = NoHint
       /\ sess = NoSession

HandlerInit ==
    \E text \in HandlerTexts, changeList \in ChangeLists, m, e \in {1, 2} :
        \E range \in ValidRanges(text) \cup {NoRange} :
            /\ WellPlaced(text, changeList)
            /\ HandlerInitFor(text, range, changeList, m, e)

\* the handlers of the notification run to the end
HandlerNext ==
    \/ EditorChange
    \/ EditorChangeDone
    \/ DocumentChange
    \/ DocumentChangeDone
    \/ Return

HandlerSpec == HandlerInit /\ [][HandlerNext]_vars

\* ------------------------------------------------------------------ faults
SyncReturns == {"ec_done", "dc_done"}

\* a replay (Editor.js:412 or 456) is in progress and a listener is about to
\* run
InReplay ==
    /\ ~Idle
    /\ Top.op \in {"ec", "dc"}
    /\ \E i \in 2..Len(stack) : stack[i].op \in SyncReturns

\* a listener called during a replay throws: the exception unwinds every
\* handler up to the event loop; no handler catches it, so no statement
\* after Editor.js:412 or 456 runs
ReplayThrows ==
    /\ InReplay
    /\ stack' = <<ReturnFrame>>
    /\ thrown' = TRUE
    /\ UNCHANGED <<status, cmText, duringSync, visibleRange, masterEditor,
                   docText, refCount, op, before, editCount, log, hidden>>
    /\ UNCHANGED auxVars

\* EditorManager returns from Editor.js:403 without having made a master:
\* Editor.js:406 compares null with this, 411 raises the flag and 412-344
\* reads _codeMirror of null, which throws
CoordinatorFails ==
    /\ ~Idle
    /\ Top.op = "ec"
    /\ ~EditorChangeSuppressed(Top.v)
    /\ masterEditor = NoEditor
    /\ duringSync' = [duringSync EXCEPT ![Top.v] = TRUE]
    /\ stack' = <<ReturnFrame>>
    /\ thrown' = TRUE
    /\ UNCHANGED <<status, cmText, visibleRange, masterEditor, docText,
                   refCount, op, before, editCount, log, hidden>>
    /\ UNCHANGED auxVars

NextFault == Next \/ ReplayThrows \/ CoordinatorFails

FaultSpec == Init /\ [][NextFault]_vars

\* ------------------------------------------------------------- properties
Count(seq, x) == Cardinality({i \in 1..Len(seq) : seq[i] = x})

\* the lines of the Document's text
DocLines ==
    IF masterEditor # NoEditor THEN cmText[masterEditor]
    ELSE SplitLines(docText)

\* the replays of view v that have started and not finished
PendingSyncs(v) ==
    {i \in 1..Len(stack) : stack[i].v = v /\ stack[i].op \in SyncReturns}

\* the constructor or a replay of view v is between raising and clearing
\* _duringSync
Syncing(v) ==
    \E i \in 1..Len(stack) :
        stack[i].v = v /\ stack[i].op \in SyncReturns \cup {"ctor_done"}

EditReturned == Returning /\ op.kind = "edit"

\* C1: when every handler triggered by a genuine ranged edit has returned,
\* the text of every live view equals the Document's text.
C1_ViewsMatchDocument ==
    EditReturned => \A v \in Live : cmText[v] = DocLines

C1_Witness ==
    /\ EditReturned
    /\ Cardinality(Live) = 3
    /\ op.v # masterEditor
    /\ editCount = 2
    /\ DocLines = <<<<"b">>, <<"b">>, <<"a">>>>
    /\ \A v \in Live : cmText[v] = DocLines

\* C2: one genuine edit reaches the surface of every live view exactly
\* once: the originating view through the edit itself and never through a
\* replay, every other view through exactly one replay; at no moment has a
\* surface received the edit twice.
C2_ReplayedExactlyOnce ==
    op.kind = "edit" =>
        /\ \A v \in Views : Count(log[v], op.id) <= 1
        /\ Returning => \A v \in Live : Count(log[v], op.id) = 1

C2_Witness ==
    /\ EditReturned
    /\ Cardinality(Live) = 3
    /\ masterEditor \in Live \ {op.v}
    /\ \A v \in Live : Count(log[v], op.id) = 1

\* C3: (no formula) a view reports itself as master exactly when it equals
\* the one master reference of the Document, so "at most one view is the
\* master" is true of every value that reference can take.

\* C4: after an exception in the middle of a replay, at Editor.js:412 or
\* 456, the suppression flag of every view is clear when control is back in
\* the event loop.
C4_FlagClearedAfterError ==
    (Returning /\ thrown /\ op.hadMaster) => \A v \in Views : ~duringSync[v]

\* C5: a view's suppression flag is set only while its constructor's load
\* or one replay it performs is in progress; in particular it is clear in
\* every quiescent state.
C5_FlagOnlyDuringSync ==
    \A v \in Views : duringSync[v] => Syncing(v)

C5_Witness ==
    /\ ~Idle
    /\ Top.op = "dc_done"
    /\ duringSync[Top.v]
    /\ \E i \in 2..Len(stack) : stack[i].op = "ec_done" /\ duringSync[stack[i].v]

\* C6 as stated: while one view is replaying with its flag raised, no other
\* view of the Document starts a replay before the first has finished.
C6_NoNestedSync ==
    Cardinality({v \in Views : PendingSyncs(v) # {}}) <= 1

\* C6 as amended: replays nest, but only one level deep and never twice for
\* the same view: a view has at most one replay in progress; the replay a
\* secondary performs onto the master for its own edit is the outermost; a
\* replay started by a Document change is performed by a secondary onto
\* itself and triggers no further replay.
C6_SyncNesting ==
    /\ \A v \in Views : Cardinality(PendingSyncs(v)) <= 1
    /\ \A i \in 1..Len(stack) :
          stack[i].op = "ec_done" =>
              \A j \in (i + 1)..Len(stack) : stack[j].op \notin SyncReturns
    /\ \A i \in 1..Len(stack) :
          stack[i].op = "dc_done" =>
              /\ stack[i].v # masterEditor
              /\ \A j \in 1..(i - 1) : stack[j].op \notin SyncReturns

C6_Witness ==
    /\ ~Idle
    /\ Top.op = "ec"
    /\ Top.v = stack[2].v
    /\ Len(stack) >= 3
    /\ stack[2].op = "dc_done"
    /\ \E i \in 3..Len(stack) :
          stack[i].op = "ec_done" /\ stack[i].v # stack[2].v
    /\ Cardinality(Live) = 3

\* C7: no view starts a replay while its own flag is set: a call of
\* _handleEditorChange or _handleDocumentChange that finds the flag set
\* returns at once and changes no surface, range, flag, master reference or
\* Document text.
ReplayStarts(v) ==
    Cardinality({i \in 1..Len(stack') : stack'[i].v = v
                                         /\ stack'[i].op \in SyncReturns})
        > Cardinality(PendingSyncs(v))

C7_SuppressedHandlerReturns ==
    [][/\ \A v \in Views : ReplayStarts(v) => ~duringSync[v]
       /\ (~Idle /\ Top.op \in {"ec", "dc"} /\ duringSync[Top.v]) =>
              /\ stack' = Rest
              /\ UNCHANGED <<status, cmText, duringSync, visibleRange,
                             masterEditor, docText, refCount, log,
                             hidden>>]_vars

C7_Witness ==
    /\ ~Idle
    /\ Top.op = "dc"
    /\ duringSync[Top.v]
    /\ op.kind = "edit"
    /\ op.v = Top.v
    /\ PendingSyncs(Top.v) # {}

\* C8: for a genuine edit on a view whose Document has no master, no replay
\* happens before a master exists; when the handler returns no exception has
\* escaped, the flag of the edited view is clear, and the Document has a
\* master holding the text with the edit unless the coordinator made none.
C8_MasterCreatedBeforeReplay ==
    (op.kind = "edit" /\ ~op.hadMaster) =>
        /\ \A v \in Views \ {op.v} :
              Count(log[v], op.id) > 0 => masterEditor # NoEditor
        /\ Returning =>
              /\ ~thrown
              /\ ~duringSync[op.v]
              /\ masterEditor # NoEditor =>
                     cmText[masterEditor] = cmText[op.v]

\* C9: every surface receives the edits in the order they were made: the
\* edits a view's surface has received are always the edits 1, 2, ... in
\* that order, and when an edit's handlers have returned every live view
\* has received all of them.
C9_SameOrder ==
    /\ \A v \in Views : log[v] = Ids(Len(log[v]))
    /\ (Returning /\ op.kind \in {"edit", "refresh"}) =>
           \A v \in Live : log[v] = Ids(editCount)

C9_Witness ==
    /\ EditReturned
    /\ editCount = 2
    /\ Cardinality(Live) = 3
    /\ masterEditor # NoEditor
    /\ op.v = masterEditor
    /\ \A v \in Live : log[v] = <<1, 2>>

\* C10: for a single edit made on another view, a view that owns the range
\* [s, e] ends with [s + d, e + d] when the edit lies before line s and has
\* net line delta d, and with [s, e] when the edit lies after line e.
C10_RangeShift ==
    EditReturned =>
        \A v \in Live \ {op.v} :
            before[v] # NoRange =>
                LET c == op.cl[1]
                    d == NumAdded(c)
                IN /\ c.to.line < before[v].startLine =>
                          visibleRange[v] =
                              [startLine |-> before[v].startLine + d,
                               endLine |-> before[v].endLine + d]
                   /\ c.from.line > before[v].endLine =>
                          visibleRange[v] = before[v]

\* ------------------------------------------------- replay onto one target
\* the return frame of the innermost call in progress below the listeners on
\* top of the stack
ReplayIndex ==
    CHOOSE i \in 2..Len(stack) :
        stack[i].op # "dc" /\ \A j \in 2..(i - 1) : stack[j].op = "dc"

\* _applyChangesToEditor has just returned (Editor.js:412 or 456): the
\* target's surface is about to report the change, and nothing else has run
\* since
JustReplayed ==
    /\ Len(stack) >= 2
    /\ Top.op = "ec"
    /\ stack[ReplayIndex].op \in SyncReturns

ReplayTarget == Top.v
ReplayList == stack[ReplayIndex].cl

Ranged(change) == change.from # Undefined /\ change.to # Undefined
InOrder(change) == Ranged(change) /\ change.from.line <= change.to.line

\* C11: after the replay of one ranged edit that changes the number of lines
\* onto a target that owns a range, each bound of the range that the edit
\* ends at or before (its to.line is less than or equal to the bound) has
\* moved by the net line delta of the edit.
C11_BoundAtOrAfterEditMoves ==
    (/\ JustReplayed
     /\ Len(ReplayList) = 1
     /\ InOrder(ReplayList[1])
     /\ before[ReplayTarget] # NoRange) =>
        LET c == ReplayList[1]
            d == Len(c.text) - (c.to.line - c.from.line + 1)
            old == before[ReplayTarget]
            new == visibleRange[ReplayTarget]
        IN /\ c.to.line <= old.startLine => new.startLine = old.startLine + d
           /\ c.to.line <= old.endLine => new.endLine = old.endLine + d

\* the range the replay of the ranged records of changeList is said to leave
RECURSIVE RangeAfterRecords(_, _)
RangeAfterRecords(range, changeList) ==
    IF changeList = <<>> THEN range
    ELSE LET c == Head(changeList)
             delta == Len(c.text) - (c.to.line - c.from.line + 1)
         IN RangeAfterRecords(
                [startLine |-> IF c.to.line < range.startLine
                               THEN range.startLine + delta
                               ELSE range.startLine,
                 endLine |-> IF c.to.line < range.endLine
                             THEN range.endLine + delta
                             ELSE range.endLine],
                Tail(changeList))

AllRanged(changeList) == \A i \in 1..Len(changeList) : Ranged(changeList[i])

\* C12: the replay of ranged records onto a target that owns the range [s, e]
\* moves s by the delta of each record in turn when the record's to.line is
\* less than s, and e likewise, each record against the range the previous
\* one left; and every line of the last record's new text whose index lies
\* outside the resulting range is hidden on the target's surface.
C12_ReplayAdjustsAndHides ==
    (/\ JustReplayed
     /\ AllRanged(ReplayList)
     /\ before[ReplayTarget] # NoRange) =>
        LET c == ReplayList[Len(ReplayList)]
            r == visibleRange[ReplayTarget]
        IN /\ r = RangeAfterRecords(before[ReplayTarget], ReplayList)
           /\ \A i \in c.from.line..(c.from.line + Len(c.text) - 1) :
                  (i < r.startLine \/ i > r.endLine) =>
                      i \in hidden[ReplayTarget]

C12_Witness ==
    /\ JustReplayed
    /\ Len(ReplayList) = 2
    /\ AllRanged(ReplayList)
    /\ before[ReplayTarget] # NoRange
    /\ visibleRange[ReplayTarget].startLine > before[ReplayTarget].startLine
    /\ LET c == ReplayList[2]
       IN /\ Len(c.text) = 2
          /\ c.from.line = visibleRange[ReplayTarget].endLine
          /\ c.from.line + 1 \in hidden[ReplayTarget]
          /\ c.from.line \notin hidden[ReplayTarget]

\* ------------------------------------------------ edits on the own surface
\* the sum over the records of len(text) - (to.line - from.line + 1)
RECURSIVE SumOfDeltas(_)
SumOfDeltas(changeList) ==
    IF changeList = <<>> THEN 0
    ELSE LET c == Head(changeList)
         IN Len(c.text) - (c.to.line - c.from.line + 1)
            + SumOfDeltas(Tail(changeList))

\* C13: when the handlers of a genuine edit of ranged records have returned,
\* the range of the edited view has its start line unchanged and its end line
\* increased by the sum of the records' line deltas; a secondary view that
\* received the edit by replay, whose surface change arrived with its flag
\* set, has only the range the replay left.
C13_OwnEditExtendsEnd ==
    (EditReturned /\ AllRanged(op.cl)) =>
        /\ ~thrown
        /\ before[op.v] # NoRange =>
               visibleRange[op.v] =
                   [startLine |-> before[op.v].startLine,
                    endLine |-> before[op.v].endLine + SumOfDeltas(op.cl)]
        /\ \A v \in Live \ {op.v, masterEditor} :
               before[v] # NoRange =>
                   visibleRange[v] = RangeAfterRecords(before[v], op.cl)

C13_Witness ==
    /\ EditReturned
    /\ op.v = 1
    /\ masterEditor = 2
    /\ Len(op.cl) = 2
    /\ AllRanged(op.cl)
    /\ before[1] # NoRange
    /\ SumOfDeltas(op.cl) = 2
    /\ visibleRange[1].endLine = before[1].endLine + 2
    /\ cmText[1] = cmText[2]

FullTextRecord(change) == change.from = Undefined /\ change.to = Undefined

\* C14: when a genuine edit on the surface of a view that owns a range
\* contains a record whose from and to are both undefined, the handlers
\* return without an exception.
C14_FullTextOwnEditReturns ==
    (/\ EditReturned
     /\ before[op.v] # NoRange
     /\ \E i \in 1..Len(op.cl) : FullTextRecord(op.cl[i])) => ~thrown

\* the text of a surface that held `text` after the ranged records of
\* changeList were applied to it in order
RECURSIVE TextAfterRecords(_, _)
TextAfterRecords(text, changeList) ==
    IF changeList = <<>> THEN text
    ELSE LET c == Head(changeList)
         IN TextAfterRecords(ReplaceRange(text, JoinLines(c.text), c.from,
                                          c.to),
                             Tail(changeList))

\* C15: after the replay of a change list whose first record has from or to
\* (or both) undefined, the target holds the lines of that record with the
\* later ranged records applied to them, owns no range, and has no hidden
\* line.
C15_FullTextReplayDropsRange ==
    (JustReplayed /\ ~Ranged(ReplayList[1])) =>
        /\ cmText[ReplayTarget] =
               TextAfterRecords(ReplayList[1].text, Tail(ReplayList))
        /\ visibleRange[ReplayTarget] = NoRange
        /\ hidden[ReplayTarget] = {}

C15_Witness ==
    /\ JustReplayed
    /\ Len(ReplayList) = 2
    /\ ReplayList[1].from # Undefined
    /\ ReplayList[1].to = Undefined
    /\ Len(ReplayList[2].text) = 2
    /\ before[ReplayTarget].startLine = 1
    /\ visibleRange[ReplayTarget] = NoRange
    /\ hidden[ReplayTarget] = {}
    /\ Len(cmText[ReplayTarget]) = 3

\* C16: after the replay of a record whose from lies after its to, the target
\* holds exactly the lines of the record and owns no range, as after a
\* full-text replacement.
C16_InvertedRecordReplacesAll ==
    (/\ JustReplayed
     /\ Len(ReplayList) = 1
     /\ Ranged(ReplayList[1])
     /\ ReplayList[1].from.line > ReplayList[1].to.line) =>
        /\ cmText[ReplayTarget] = ReplayList[1].text
        /\ visibleRange[ReplayTarget] = NoRange

\* ------------------------------------------------------ attach and destroy
\* the step belongs to an attach: the constructor starts, runs, or finishes
InAttach == op'.kind = "attach" /\ stack' # <<>>

\* C17: during an attach the load is not treated as an edit: the surface
\* change it causes arrives with the new view's flag set, no other view's
\* text, range or record of received edits changes, no other view is
\* constructed, the Document's text stays the same, and the new view's flag
\* is clear when the constructor has finished.
C17_LoadIsNotAnEdit ==
    [][InAttach =>
        /\ GetText' = GetText
        /\ editCount' = editCount
        /\ \A v \in Views \ {op'.v} :
               /\ status'[v] = status[v]
               /\ cmText'[v] = cmText[v]
               /\ log'[v] = log[v]
               /\ visibleRange'[v] = visibleRange[v]
               /\ hidden'[v] = hidden[v]
        /\ stack'[1].op = "ec" => duringSync'[op'.v]
        /\ stack'[1].op = "return" => ~duringSync'[op'.v]]_vars

C17_Witness ==
    /\ Returning
    /\ op.kind = "attach"
    /\ op.hadMaster
    /\ op.v # masterEditor
    /\ editCount = 1
    /\ \E v \in Live \ {op.v} : visibleRange[v] # NoRange
    /\ cmText[op.v] = DocLines
    /\ ~duringSync[op.v]

\* C18: an attach changes the Document's master reference only in the step
\* that ends the constructor, after the load: with asMaster that step makes
\* the new view the master, with its flag clear, its range recorded and the
\* lines outside the range hidden; without asMaster the master reference
\* stays what it was.
C18_MasterAfterInit ==
    [][InAttach =>
        IF stack # <<>> /\ Top.op = "ctor_done"
        THEN IF Top.mk
             THEN /\ masterEditor' = Top.v
                  /\ ~duringSync'[Top.v]
                  /\ cmText'[Top.v] = SplitLines(GetText)
                  /\ visibleRange'[Top.v] = Top.rg
                  /\ Top.rg # NoRange =>
                         hidden'[Top.v] =
                             {i \in 0..(Len(cmText[Top.v]) - 1) :
                                  i < Top.rg.startLine \/ i > Top.rg.endLine}
             ELSE masterEditor' = masterEditor
        ELSE masterEditor' = masterEditor]_vars

C18_Witness ==
    /\ Returning
    /\ op.kind = "attach"
    /\ masterEditor = op.v
    /\ visibleRange[op.v] = [startLine |-> 1, endLine |-> 1]
    /\ hidden[op.v] = {0, 2}
    /\ Cardinality(Live) = 2

\* C19: a destroy of the view that is the Document's master leaves the
\* Document without master and holding the master's text itself; a destroy
\* of any other view leaves the master reference and the Document's own text
\* unchanged.
C19_DestroyDemotesOnlyMaster ==
    [][\A v \in Views :
          (status[v] = "live" /\ status'[v] = "destroyed") =>
              IF masterEditor = v
              THEN /\ masterEditor' = NoEditor
                   /\ docText' = JoinLines(cmText[v])
              ELSE /\ masterEditor' = masterEditor
                   /\ docText' = docText]_vars

C19_Witness ==
    /\ Idle
    /\ editCount = 1
    /\ masterEditor = NoEditor
    /\ Cardinality(Live) = 2
    /\ \E v \in Views : /\ status[v] = "destroyed"
                        /\ docText = JoinLines(cmText[v])
                        /\ Len(cmText[v]) = 3

\* C20: the Document's reference count equals the number of views that have
\* been constructed and not destroyed; it is zero when every view has been
\* destroyed.
C20_RefCountIsLiveViews ==
    refCount = Cardinality(Live)

C20_Witness ==
    /\ \A v \in Views : status[v] = "destroyed"
    /\ refCount = 0
    /\ editCount = 1

\* ---------------------------------------------------------- inline widgets
\* C21: destroy calls the close callback of every widget recorded in the
\* view's list at that moment, once each and in list order, whether or not
\* the surface still hosts the widget, and of no other widget: a widget whose
\* record a removal notification purged before is not called by destroy.
C21_DestroyClosesListed ==
    [][\A v \in Views :
          (status[v] = "live" /\ status'[v] = "destroyed") =>
              /\ Len(closeCalls'[v]) =
                     Len(closeCalls[v]) + Len(inlineWidgets[v])
              /\ SubSeq(closeCalls'[v], 1, Len(closeCalls[v])) = closeCalls[v]
              /\ \A i \in 1..Len(inlineWidgets[v]) :
                     /\ closeCalls'[v][Len(closeCalls[v]) + i].id =
                            inlineWidgets[v][i].id
                     /\ closeCalls'[v][Len(closeCalls[v]) + i].by =
                            "destroy"]_vars

C21_Witness ==
    \E v \in Views :
        /\ status[v] = "destroyed"
        /\ WidgetIds(inlineWidgets[v]) = <<2>>
        /\ hosted[v] = {2}
        /\ Len(closeCalls[v]) = 2
        /\ closeCalls[v][1].id = 1 /\ closeCalls[v][1].by = "surface"
        /\ closeCalls[v][2].id = 2 /\ closeCalls[v][2].by = "destroy"

\* the ids held by a sequence of ids
IdsOf(seq) == {seq[i] : i \in 1..Len(seq)}

\* C22: when the surface notifies the removal of a widget, the widget's
\* record is out of the view's list when the caller's close callback runs:
\* the callback sees the list without its own record. A removeInlineWidget
\* call changes neither the list nor the close calls nor what the surface
\* hosts: the record stays until the notification arrives.
C22_PurgedBeforeCallback ==
    [][\A v \in Views :
          /\ \A id \in hosted[v] \ hosted'[v] :
                /\ inlineWidgets'[v] = RemoveInternal(inlineWidgets[v], id)
                /\ id \notin IdsOf(WidgetIds(inlineWidgets'[v]))
                /\ Len(closeCalls'[v]) = Len(closeCalls[v]) + 1
                /\ closeCalls'[v][Len(closeCalls'[v])].id = id
                /\ closeCalls'[v][Len(closeCalls'[v])].by = "surface"
                /\ closeCalls'[v][Len(closeCalls'[v])].saw =
                       WidgetIds(inlineWidgets'[v])
          /\ (requested'[v] \ requested[v] # {}) =>
                /\ inlineWidgets'[v] = inlineWidgets[v]
                /\ closeCalls'[v] = closeCalls[v]
                /\ hosted'[v] = hosted[v]]_vars

C22_Witness ==
    \E v \in Views :
        /\ status[v] = "live"
        /\ requested[v] = {1}
        /\ WidgetIds(inlineWidgets[v]) = <<1>>
        /\ closeCalls[v] = <<[id |-> 2, by |-> "surface", saw |-> <<1>>]>>

\* the position of a widget id in a widget list
PlaceOf(list, id) == CHOOSE i \in 1..Len(list) : list[i].id = id

\* the ids of the widgets of a list that have a show callback
ShowIds(list) == {list[i].id : i \in {k \in 1..Len(list) : list[k].show}}

\* C23: setVisible(true) calls the show callback of every widget of the
\* view's list that has one, once each and in list order; setVisible(false)
\* calls none. The call changes neither the widget list nor the text, the
\* flag or the visible range of any view.
C23_ShowCallbacksOnShow ==
    [][(lastShown' # lastShown \/ visible' # visible) =>
          /\ visible' = [visible EXCEPT ![lastShown'.v] = lastShown'.show]
          /\ IF lastShown'.show
             THEN /\ IdsOf(lastShown'.calls) =
                         ShowIds(inlineWidgets[lastShown'.v])
                  /\ Len(lastShown'.calls) =
                         Cardinality(ShowIds(inlineWidgets[lastShown'.v]))
                  /\ \A i, j \in 1..Len(lastShown'.calls) :
                         i < j =>
                             PlaceOf(inlineWidgets[lastShown'.v],
                                     lastShown'.calls[i])
                             < PlaceOf(inlineWidgets[lastShown'.v],
                                       lastShown'.calls[j])
             ELSE lastShown'.calls = <<>>
          /\ UNCHANGED <<inlineWidgets, cmText, duringSync, visibleRange>>]_vars

C23_Witness ==
    /\ lastShown.show
    /\ lastShown.calls = <<1, 2>>
    /\ visible[lastShown.v]
    /\ WidgetIds(inlineWidgets[lastShown.v]) = <<1, 2>>
    /\ \E u \in Views : status[u] = "live" /\ ~visible[u]

\* C24: the constructor of a view attached with a visible range [s, e] hides
\* the lines 0..s-1 and e+1..lineCount-1 of the new surface and no line of
\* s..e, records the range, and sets the cursor to (s, 0).
C24_AttachHidesOutside ==
    [][(~Idle /\ Top.op = "ctor_done" /\ Top.rg # NoRange
            /\ stack' = Rest) =>
          /\ hidden'[Top.v] =
                 (0..(Top.rg.startLine - 1))
                 \cup ((Top.rg.endLine + 1)..(Len(cmText'[Top.v]) - 1))
          /\ hidden'[Top.v] \cap (Top.rg.startLine..Top.rg.endLine) = {}
          /\ visibleRange'[Top.v] = Top.rg
          /\ cursorPos'[Top.v] = [line |-> Top.rg.startLine, ch |-> 0]]_vars

C24_Witness ==
    /\ Returning
    /\ op.kind = "attach"
    /\ masterEditor # op.v
    /\ Len(cmText[op.v]) = 3
    /\ visibleRange[op.v] = [startLine |-> 1, endLine |-> 1]
    /\ hidden[op.v] = {0, 2}
    /\ cursorPos[op.v] = [line |-> 1, ch |-> 0]


\* C25: with soft tabs of size t, Right or Delete at column c of a line of
\* length n moves over, or deletes, exactly j = t - (c mod t) characters and
\* ends on a tab stop when c + j <= n and the j characters after the cursor
\* are all white space; in every other case, and when the indentation uses
\* tab characters, the single-character command is performed
C25_ForwardSoftTab ==
    [][kb'.key \in {"Right", "Delete"} =>
         IF /\ ~kb.withTabs
            /\ kb.to + (kb.tabSize - (kb.to % kb.tabSize)) <= Len(kb.line)
            /\ \A i \in (kb.to + 1)..
                        (kb.to + (kb.tabSize - (kb.to % kb.tabSize))) :
                  IsSpace(kb.line[i])
         THEN /\ kb'.n = kb.tabSize - (kb.to % kb.tabSize)
              /\ kb'.offLine = 0
              /\ IF kb'.key = "Right"
                 THEN /\ kb'.cmds = <<"moveH">>
                      /\ kb'.line = kb.line
                      /\ kb'.to = kb.to + kb'.n
                      /\ kb'.from = kb'.to
                      /\ kb'.to % kb.tabSize = 0
                 ELSE /\ kb'.cmds = <<"deleteH">>
                      /\ kb'.line = SubSeq(kb.line, 1, kb.to)
                                    \o SubSeq(kb.line, kb.to + kb'.n + 1,
                                              Len(kb.line))
                      /\ kb'.to = kb.to
                      /\ kb'.from = kb.to
         ELSE /\ kb'.n = 1
              /\ kb'.cmds = IF kb'.key = "Right" THEN <<"goCharRight">>
                            ELSE <<"delCharRight">>]_vars

\* Right pressed at column 1 with tab size 3 before two spaces that end the
\* line: the cursor is at column 3
C25_Witness ==
    /\ kb.key = "Right"
    /\ kb.cmds = <<"moveH">>
    /\ kb.tabSize = 3
    /\ kb.was.line = <<"x", " ", " ">>
    /\ kb.was.to = 1
    /\ kb.to = 3


\* the tab stop before column c
PrevTabStop(c, tabSize) ==
    IF c % tabSize = 0 THEN c - tabSize ELSE c - (c % tabSize)

\* the column a backward jump from column c may reach: the tab stop before c,
\* or the position just after the last non-space character between that tab
\* stop and c when there is one
BackwardTarget(line, c, tabSize) ==
    IF \A i \in (PrevTabStop(c, tabSize) + 1)..c : IsSpace(line[i])
    THEN PrevTabStop(c, tabSize)
    ELSE CHOOSE i \in (PrevTabStop(c, tabSize) + 1)..c :
             /\ ~IsSpace(line[i])
             /\ \A j \in (i + 1)..c : IsSpace(line[j])

\* C26: with soft tabs of size t, Left or Backspace at column c > 0 moves
\* over, or deletes, white space only: it ends on the nearer of the tab stop
\* before c and the position just after the last non-space character between
\* that tab stop and c, never before column 0; at column 0, or when the
\* character left of the cursor is not white space, the single-character
\* command is performed
C26_BackwardSoftTab ==
    [][(kb'.key \in {"Left", "Backspace"} /\ ~kb.withTabs) =>
         IF kb.to > 0 /\ IsSpace(kb.line[kb.to])
         THEN /\ kb'.to = BackwardTarget(kb.line, kb.to, kb.tabSize)
              /\ kb'.from = kb'.to
              /\ kb'.to >= 0
              /\ kb'.to < kb.to
              /\ kb'.n = kb'.to - kb.to
              /\ kb'.offLine = 0
              /\ \A i \in (kb'.to + 1)..kb.to : IsSpace(kb.line[i])
              /\ IF kb'.key = "Left"
                 THEN kb'.cmds = <<"moveH">> /\ kb'.line = kb.line
                 ELSE /\ kb'.cmds = <<"deleteH">>
                      /\ kb'.line = SubSeq(kb.line, 1, kb'.to)
                                    \o SubSeq(kb.line, kb.to + 1,
                                              Len(kb.line))
         ELSE /\ kb'.n = -1
              /\ kb'.cmds = IF kb'.key = "Left" THEN <<"goCharLeft">>
                            ELSE <<"delCharLeft">>]_vars

\* Backspace pressed at column 3 with tab size 3 after a letter and two
\* spaces: the two spaces are deleted and the letter is kept
C26_Witness ==
    /\ kb.key = "Backspace"
    /\ kb.cmds = <<"deleteH">>
    /\ kb.tabSize = 3
    /\ kb.was.line = <<"x", " ", " ">>
    /\ kb.was.to = 3
    /\ kb.line = <<"x">>
    /\ kb.to = 1


\* the column of the first non-space character of a line, the line's length
\* when it holds white space only
FirstTextColumn(line) == LeadingSpace(line)

\* C27: on Tab the line is auto-indented whenever the selection is on a
\* single line and starts at or before the column of the first non-space
\* character (the cursor exactly at that column and a line of white space
\* only included); otherwise a non-empty selection indents the selected
\* lines by one level and an empty one inserts one indentation unit at the
\* cursor
C27_TabAutoIndents ==
    [][kb'.key = "Tab" =>
         IF ~kb.multi /\ kb.from <= FirstTextColumn(kb.line)
         THEN kb'.cmds[1] = "indentAuto"
         ELSE IF kb.multi \/ kb.from # kb.to
         THEN kb'.cmds = <<"indentMore">>
         ELSE /\ kb'.cmds = <<"insert">>
              /\ kb'.line = SubSeq(kb.line, 1, kb.to)
                            \o IndentUnitAt(kb, kb.to)
                            \o SubSeq(kb.line, kb.to + 1, Len(kb.line))]_vars


\* C28: when the auto-indent of Tab leaves the line unchanged, exactly one
\* indentation unit (a tab character, or t spaces with soft tabs of size t)
\* is inserted at column 0 and no character of the line is removed or
\* replaced, whatever the cursor column or the selection was
C28_UnitAtColumnZero ==
    [][(/\ kb'.key = "Tab"
        /\ kb'.cmds[1] = "indentAuto"
        /\ IndentLineTo(kb.line, kb.auto, kb.tabSize, kb.withTabs) = kb.line)
       => kb'.line = (IF kb.withTabs THEN <<"\t">> ELSE Spaces(kb.tabSize))
                     \o kb.line]_vars


\* C29: when Tab inserts an indentation unit at the cursor (empty selection,
\* no auto-indent) with soft tabs of size t and the cursor at column c, the
\* number of spaces inserted is t - (c mod t), which is between 1 and t, and
\* the cursor ends on the next tab stop
C29_SpacesToNextTabStop ==
    [][(kb'.key = "Tab" /\ kb'.cmds = <<"insert">> /\ ~kb.withTabs) =>
         /\ kb.from = kb.to
         /\ kb'.line = SubSeq(kb.line, 1, kb.to)
                       \o Spaces(kb.tabSize - (kb.to % kb.tabSize))
                       \o SubSeq(kb.line, kb.to + 1, Len(kb.line))
         /\ Len(kb'.line) - Len(kb.line) \in 1..kb.tabSize
         /\ kb'.to = kb.to + (kb.tabSize - (kb.to % kb.tabSize))
         /\ kb'.from = kb'.to
         /\ kb'.to % kb.tabSize = 0
         /\ kb'.to - kb.to <= kb.tabSize]_vars

\* Tab pressed with tab size 3 at column 1, after the letter of the line:
\* two spaces are inserted and the cursor is at column 3
C29_Witness ==
    /\ kb.key = "Tab"
    /\ kb.cmds = <<"insert">>
    /\ ~kb.withTabs
    /\ kb.tabSize = 3
    /\ kb.was.line = <<"x">>
    /\ kb.was.to = 1
    /\ kb.line = <<"x", " ", " ">>
    /\ kb.to = 3


\* the text a test reads between two columns of the line
GetRange(text, from, to) == SubSeq(text, from + 1, to)

\* C30: insertHint replaces exactly the range [queryStart, cursor], where
\* queryStart is the start of the identifier or property fragment left of
\* the cursor (an empty range when nothing is typed), by the chosen entry's
\* name, puts the cursor after the name, leaves the text before queryStart
\* and after the old cursor unchanged and returns false; with `A1.`,
\* `A1.pro` or `A1.propB` (cursor after `A1.pro`) choosing `propA` gives a
\* text that starts with `A1.propA` and the cursor at column 8
C30_InsertHintReplacesQuery ==
    [][(~hint.done /\ hint'.done) =>
         /\ \E q \in 0..hint.cursor :
               /\ \A i \in (q + 1)..hint.cursor : IsIdChar(hint.text[i])
               /\ q = 0 \/ ~IsIdChar(hint.text[q])
               /\ hint'.text = SubSeq(hint.text, 1, q) \o hint.name
                               \o SubSeq(hint.text, hint.cursor + 1,
                                         Len(hint.text))
               /\ hint'.cursor = q + Len(hint.name)
         /\ hint'.ret = FALSE
         /\ hint.name = <<"p", "r", "o", "p", "A">> =>
               /\ GetRange(hint'.text, 0, 8) =
                      <<"A", "1", ".", "p", "r", "o", "p", "A">>
               /\ hint'.cursor = 8
         /\ hint.name = <<"A", "3">> =>
               /\ GetRange(hint'.text, 9, 11) = <<"A", "3">>
               /\ hint'.cursor = 11
         /\ hint.name = <<"b", "o", "o", "l">> =>
               /\ GetRange(hint'.text, 0, 4) = <<"b", "o", "o", "l">>
               /\ hint'.cursor = 4]_vars

\* `propA` was chosen with the cursor after `A1.pro` of `A1.propB`: the
\* fragment `pro` was replaced and `pB` after the cursor kept
C30_Witness ==
    /\ hint.done
    /\ hint.was.text = <<"A", "1", ".", "p", "r", "o", "p", "B">>
    /\ hint.was.cursor = 6
    /\ hint.text = <<"A", "1", ".", "p", "r", "o", "p", "A", "p", "B">>
    /\ hint.cursor = 8
    /\ ~hint.ret


\* the lines of view v's surface that are not hidden
ShownLines(v) == (0..(Len(cmText[v]) - 1)) \ hidden[v]

\* the lines of a range
RangeLines(range) == range.startLine..range.endLine

\* C35: whenever every handler has returned, the lines not hidden on the surface
\* of a view that owns a visible range are exactly startLine..endLine, after
\* any sequence of replayed and own edits; after a full-text replacement the
\* range is none and no line is hidden
C35_ShownIsRange ==
    (Idle \/ Returning) =>
        \A v \in Live :
            /\ visibleRange[v] # NoRange =>
                   ShownLines(v) = RangeLines(visibleRange[v])
            /\ (Returning /\ op.kind = "refresh") =>
                   visibleRange[v] = NoRange /\ hidden[v] = {}


\* C36: whenever every handler has returned, the range of a view that owns
\* one is well formed, 0 <= startLine <= endLine < the line count of the
\* view's surface, after any sequence of replayed and own edits, an edit
\* that deletes the range's start line, its end line or the whole range
\* included
C36_RangeWellFormed ==
    (Idle \/ Returning) =>
        \A v \in Live :
            visibleRange[v] # NoRange =>
                /\ 0 <= visibleRange[v].startLine
                /\ visibleRange[v].startLine <= visibleRange[v].endLine
                /\ visibleRange[v].endLine < Len(cmText[v])


Destroyed == {v \in Views : status[v] = "destroyed"}

\* C37: once a view is destroyed, later changes of its Document are not
\* replayed onto it: its surface text, its hidden lines, its visible range
\* and its suppression flag stay as they were at destroy, and when the
\* handlers of a later edit or replacement have returned the views still
\* live hold the Document's text
C37_DestroyedUntouched ==
    [][/\ \A v \in Destroyed :
             /\ status'[v] = "destroyed"
             /\ cmText'[v] = cmText[v]
             /\ hidden'[v] = hidden[v]
             /\ visibleRange'[v] = visibleRange[v]
             /\ duringSync'[v] = duringSync[v]
       /\ (Destroyed # {} /\ ~thrown' /\ stack' # <<>>
           /\ stack'[1].op = "return" /\ op'.kind \in {"edit", "refresh"}) =>
             \A v \in Views :
                 status'[v] = "live" =>
                     cmText'[v] = (IF masterEditor' # NoEditor
                                   THEN cmText'[masterEditor']
                                   ELSE SplitLines(docText'))]_vars

\* a view with a visible range was destroyed; an edit made afterwards on
\* another view has reached the third view and not the destroyed one
C37_Witness ==
    /\ Returning
    /\ op.kind = "edit"
    /\ \E d \in Destroyed, u, w \in Live :
          /\ u # w
          /\ visibleRange[d] # NoRange
          /\ ~duringSync[d]
          /\ cmText[u] = cmText[w]
          /\ cmText[d] # cmText[u]


\* the ids of a set in the order the surface gave them out
Ascending(ids) ==
    CHOOSE s \in [1..Cardinality(ids) -> ids] :
        \A i, j \in 1..Cardinality(ids) : i < j => s[i] < s[j]

\* C38: after any sequence of addInlineWidget calls and removal
\* notifications, getInlineWidgets() holds exactly the widgets added and not
\* yet notified as removed, in order of addition and each id once; the
\* removal of an id that is not in the list leaves the list unchanged
C38_ListIsAddedNotRemoved ==
    \A v \in Views :
        /\ WidgetIds(inlineWidgets[v]) = Ascending(hosted[v])
        /\ \A i, j \in 1..Len(inlineWidgets[v]) :
               inlineWidgets[v][i].id = inlineWidgets[v][j].id => i = j
        /\ \A id \in (1..(MaxWidgets + 1)) \ IdsOf(WidgetIds(inlineWidgets[v])) :
               RemoveInternal(inlineWidgets[v], id) = inlineWidgets[v]

\* two widgets were added to a view and the removal of the first was
\* notified: the list holds the second only
C38_Witness ==
    \E v \in Views :
        /\ nextWidget[v] = 2
        /\ hosted[v] = {2}
        /\ WidgetIds(inlineWidgets[v]) = <<2>>
        /\ Len(closeCalls[v]) = 1
        /\ closeCalls[v][1].id = 1


ScopeNames == DeclaredNames \cup Keywords

\* C32: the hints of a property lookup (cursor after the property-access
\* operator on a receiver) hold only property names observed on the
\* receiver and no variable, parameter, function or keyword name of the
\* surrounding scope; the hints of a bare identifier hold no name that is
\* only a property name
C32_PropertyAndValueApart ==
    sess.result # NoResult =>
        /\ sess.result.ctx.kind = "prop" =>
               /\ sess.result.hints \subseteq
                      Properties(sess.result.ctx.recv)
               /\ sess.result.hints \cap ScopeNames = {}
        /\ sess.result.ctx.kind = "ident" =>
               sess.result.hints \cap (PropertyNames \ ScopeNames) = {}
        /\ sess.result.ctx = TestProperty =>
               /\ sess.result.hints = {"propB"}
               /\ sess.result.hints
                      \cap {"A1", "A2", "funB", "paramB1", "paramB2", "B1",
                            "B2", "funC", "paramC1", "paramC2", "case",
                            "function", "var"} = {}
        /\ sess.result.ctx = TestOuter =>
               sess.result.hints \cap {"propA", "propB", "propC"} = {}

\* the list asked for at line 17, column 11 of the tests' file has arrived
\* from the analysis service: it holds propB only
C32_Witness ==
    /\ sess.state = "resolved"
    /\ sess.result.ctx = TestProperty
    /\ sess.result.hints = {"propB"}
    /\ sess.settled[sess.result.id] = 1
    /\ sess.dropped = {}


\* scope e is scope s or encloses it (the tests' file nests three deep)
Encloses(e, s) == e = s \/ e = Parent(s) \/ e = Parent(Parent(s))

\* scope f is visible from scope s through the file-level references of
\* the file that holds s
Referenced(f, s) == \E e \in Scopes : Encloses(e, s) /\ f \in References(e)

\* C33: the hints of a bare identifier in scope X hold every name, matching
\* what was typed, that is declared in X or in a scope enclosing X
\* (parameters included) or is visible through file-level references;
\* they hold no name declared only in scopes that neither enclose X nor
\* are referenced, and no name that does not match what was typed
C33_LexicalVisibility ==
    (sess.result # NoResult /\ sess.result.ctx.kind = "ident") =>
        LET X == sess.result.ctx.scope
            q == sess.result.ctx.query
            list == sess.result.hints
        IN  /\ \A e \in Scopes :
                   (Encloses(e, X) \/ Referenced(e, X)) =>
                       \A n \in Declared(e) : Matches(n, q) => n \in list
            /\ \A n \in list :
                   \/ n \in Keywords
                   \/ \E e \in Scopes :
                          /\ Encloses(e, X) \/ Referenced(e, X)
                          /\ n \in Declared(e)
            /\ \A n \in list : Matches(n, q)
            /\ sess.result.ctx = TestOuter =>
                   /\ {"A2", "A3", "funB", "A1", "D1", "D2", "funE"}
                          \subseteq list
                   /\ list \cap {"paramB2", "paramB1", "E1", "E2",
                                 "paramE1", "paramE2"} = {}
            /\ sess.result.ctx = TestInner =>
                   {"funC", "B2", "B1", "paramB2", "paramB1", "funB", "A2",
                    "A3", "A1"} \subseteq list
            /\ sess.result.ctx = TestQuery =>
                   /\ {"A2", "A3", "A1"} \subseteq list
                   /\ "funB" \notin list

\* the list asked for at line 6, column 0 of the tests' file has arrived:
\* it holds the outer scope's names and the other file's, and the inner
\* scope's names are declared but not listed
C33_Witness ==
    /\ sess.state = "resolved"
    /\ sess.result.ctx = TestOuter
    /\ {"A1", "funB", "D1", "funE"} \subseteq sess.result.hints
    /\ "paramB1" \in DeclaredNames
    /\ "paramB1" \notin sess.result.hints


\* the sessions started so far
Started == 1..Len(sess.settled)

====
